---- MODULE Spec2Model ----
(***************************************************************************)
(* Superblock lifecycle of fs/ext4/super.c: mount (ext4_fill_super),       *)
(* remount (ext4_remount), unmount (ext4_put_super), the fault reports     *)
(* (ext4_error, ext4_abort, ...), superblock persist (ext4_commit_super),  *)
(* orphan cleanup and the lazy inode-table initialisation worker.          *)
(*                                                                         *)
(* Every handler is an operator from a machine state M (a record of the    *)
(* variables below) to the machine state it leaves; an action applies one  *)
(* handler to inputs drawn from small sets.                                *)
(***************************************************************************)
EXTENDS Integers, Sequences, FiniteSets, TLC

VARIABLES
    sb,     \* struct super_block + struct ext4_sb_info of the volume
    es,     \* struct ext4_super_block: the superblock buffer (sbi->s_es)
    gd,     \* the group descriptors (sbi->s_group_desc[] contents)
    disk,   \* what is durable on the block device, and the device itself
    jnl,    \* the journal_t bound to the volume
    li,     \* the process-wide lazy-init registry (ext4_li_info)
    host,   \* the kernel: up or panicked; its build; what it holds
    op,     \* the last handler that ran: name, inputs, return value, log
    lz      \* the lazy-init code statement by statement: the volumes, the
            \* requests, the two mutexes, the worker and the callers

vars == <<sb, es, gd, disk, jnl, li, host, op, lz>>

--------------------------------------------------------------------------
(* Bounds of the model *)

NGroups == 2            \* block groups of the volume (sbi->s_groups_count)
MaxOrphans == 2         \* longest on-disk orphan chain
MaxErrors == 2          \* fault reports per run (caps es->s_error_count)
MaxElapsed == 1         \* jiffies one ext4_init_inode_table call may take
MaxStartDelay == 1      \* first lr_next_sched offset (rnd % delay)

(* Program constants *)

EXT4_DEF_LI_WAIT_MULT == 10
EXT4_GOOD_OLD_REV == 0
EXT4_DYNAMIC_REV == 1
EXT4_MAX_SUPP_REV == EXT4_DYNAMIC_REV
JBD2_DEFAULT_MAX_COMMIT_AGE == 5
BLOCKS_PER_GROUP == 4

--------------------------------------------------------------------------
(* Small helpers *)

Min(a, b) == IF a < b THEN a ELSE b

--------------------------------------------------------------------------
(* Feature bitsets.  A bitset is the set of the names of its bits; the     *)
(* *_UNKNOWN names stand for any bit outside the supported masks.          *)

IncompatBits == {"RECOVER", "EXTENTS", "MMP", "FLEX_BG", "INCOMPAT_UNKNOWN"}
RoCompatBits == {"GDT_CSUM", "HUGE_FILE", "BIGALLOC", "RO_COMPAT_UNKNOWN"}
CompatBits   == {"HAS_JOURNAL", "COMPAT_UNKNOWN"}

EXT4_FEATURE_INCOMPAT_SUPP  == {"RECOVER", "EXTENTS", "MMP", "FLEX_BG"}
EXT4_FEATURE_RO_COMPAT_SUPP == {"GDT_CSUM", "HUGE_FILE", "BIGALLOC"}

\* EXT4_HAS_INCOMPAT_FEATURE(sb, mask) and its two siblings
EXT4_HAS_INCOMPAT_FEATURE(e, mask)  == (e.s_feature_incompat \cap mask) # {}
EXT4_HAS_RO_COMPAT_FEATURE(e, mask) == (e.s_feature_ro_compat \cap mask) # {}
EXT4_HAS_COMPAT_FEATURE(e, mask)    == (e.s_feature_compat \cap mask) # {}

\* ext4_feature_set_ok with the read-write checks left out: what a slip in
\* the readonly test would make of it.
ext4_feature_set_ok_NoRwCheck(e, readonly, lbdaf) ==
    ~EXT4_HAS_INCOMPAT_FEATURE(e, IncompatBits \ EXT4_FEATURE_INCOMPAT_SUPP)

\* ext4_feature_set_ok(sb, readonly): TRUE iff the volume can be mounted as
\* requested.  lbdaf is sizeof(blkcnt_t) >= sizeof(u64) of the build.
ext4_feature_set_ok(e, readonly, lbdaf) ==
    IF EXT4_HAS_INCOMPAT_FEATURE(e, IncompatBits \ EXT4_FEATURE_INCOMPAT_SUPP)
    THEN FALSE
    ELSE IF readonly THEN TRUE
    ELSE IF EXT4_HAS_RO_COMPAT_FEATURE(e, RoCompatBits \ EXT4_FEATURE_RO_COMPAT_SUPP)
    THEN FALSE
    ELSE IF EXT4_HAS_RO_COMPAT_FEATURE(e, {"HUGE_FILE"}) /\ ~lbdaf
    THEN FALSE
    ELSE IF EXT4_HAS_RO_COMPAT_FEATURE(e, {"BIGALLOC"})
            /\ ~EXT4_HAS_INCOMPAT_FEATURE(e, {"EXTENTS"})
    THEN FALSE
    ELSE TRUE

--------------------------------------------------------------------------
(* Group descriptors.  A descriptor is                                     *)
(*   [bg_block_bitmap, bg_inode_bitmap, bg_inode_table : block numbers,    *)
(*    zeroed : EXT4_BG_INODE_ZEROED in bg_flags, bg_checksum]              *)

\* crc16 over the uuid, the group number and the descriptor without its
\* checksum field
crc16(uuid, block_group, g) ==
    (31 * uuid + 17 * block_group + 3 * g.bg_block_bitmap
       + 5 * g.bg_inode_bitmap + 7 * g.bg_inode_table
       + IF g.zeroed THEN 11 ELSE 0) % 65536

\* ext4_group_desc_csum: 0 unless the GDT_CSUM feature is on
ext4_group_desc_csum(e, block_group, g) ==
    IF EXT4_HAS_RO_COMPAT_FEATURE(e, {"GDT_CSUM"})
    THEN crc16(e.s_uuid, block_group, g)
    ELSE 0

\* ext4_group_desc_csum_verify that accepts every descriptor.
ext4_group_desc_csum_verify_AcceptsAll(e, block_group, g) == TRUE

ext4_group_desc_csum_verify(e, block_group, g) ==
    ~(EXT4_HAS_RO_COMPAT_FEATURE(e, {"GDT_CSUM"})
      /\ g.bg_checksum # ext4_group_desc_csum(e, block_group, g))

ext4_blocks_count(e) == e.s_blocks_count

\* last_block of group i as ext4_check_descriptors computes it (i from 0)
GroupLastBlock(e, i, ngroups) ==
    IF i = ngroups - 1 \/ EXT4_HAS_INCOMPAT_FEATURE(e, {"FLEX_BG"})
    THEN ext4_blocks_count(e) - 1
    ELSE e.s_first_data_block + i * BLOCKS_PER_GROUP + (BLOCKS_PER_GROUP - 1)

GroupFirstBlock(e, i) ==
    IF EXT4_HAS_INCOMPAT_FEATURE(e, {"FLEX_BG"})
    THEN e.s_first_data_block
    ELSE e.s_first_data_block + i * BLOCKS_PER_GROUP

\* The body of the loop without the test of the inode table's last block.
CheckDescriptor_NoTableEnd(e, g, i, ngroups, rdonly, itb_per_group) ==
    LET first_block == GroupFirstBlock(e, i)
        last_block  == GroupLastBlock(e, i, ngroups)
    IN  /\ ~(g.bg_block_bitmap < first_block \/ g.bg_block_bitmap > last_block)
        /\ ~(g.bg_inode_bitmap < first_block \/ g.bg_inode_bitmap > last_block)
        /\ ~(g.bg_inode_table < first_block)
        /\ (ext4_group_desc_csum_verify(e, i, g) \/ rdonly)

\* The body of the loop of ext4_check_descriptors for group i: TRUE iff
\* the loop goes on to the next group.
CheckDescriptor(e, g, i, ngroups, rdonly, itb_per_group) ==
    LET first_block == GroupFirstBlock(e, i)
        last_block  == GroupLastBlock(e, i, ngroups)
    IN  /\ ~(g.bg_block_bitmap < first_block \/ g.bg_block_bitmap > last_block)
        /\ ~(g.bg_inode_bitmap < first_block \/ g.bg_inode_bitmap > last_block)
        /\ ~(g.bg_inode_table < first_block
             \/ g.bg_inode_table + itb_per_group - 1 > last_block)
        /\ (ext4_group_desc_csum_verify(e, i, g) \/ rdonly)

\* A checksum failure fatal whatever the mount is: the rdonly test dropped.
ext4_check_descriptors_CsumAlwaysFatal(e, g, ngroups, rdonly, itb_per_group) ==
    \A i \in 0..(ngroups - 1) :
        CheckDescriptor(e, g[i + 1], i, ngroups, FALSE, itb_per_group)

\* ext4_check_descriptors(sb, &first_not_zeroed): 1 iff every group passes
ext4_check_descriptors(e, g, ngroups, rdonly, itb_per_group) ==
    \A i \in 0..(ngroups - 1) :
        CheckDescriptor(e, g[i + 1], i, ngroups, rdonly, itb_per_group)

\* the group ext4_check_descriptors stores in *first_not_zeroed, and the
\* value of ext4_has_uninit_itable: the first group whose inode table is
\* not zeroed, ngroups when there is none
ext4_has_uninit_itable(g, ngroups) ==
    IF \E i \in 0..(ngroups - 1) : ~g[i + 1].zeroed
    THEN CHOOSE i \in 0..(ngroups - 1) :
            ~g[i + 1].zeroed /\ \A j \in 0..(i - 1) : g[j + 1].zeroed
    ELSE ngroups

--------------------------------------------------------------------------
(* The machine state a handler works on:                                   *)
(*   [sb, es, gd, disk, jnl, li, host : the variables,                     *)
(*    env : the failures the environment injects into this call,           *)
(*    loc : the locals of ext4_fill_super,                                 *)
(*    log : the events of this call, in order,                             *)
(*    ret : the return value of the function that ran last]                *)

Log(M, kind, what) == [M EXCEPT !.log = Append(@, <<kind, what>>)]

\* a kernel resource (buffer head, block device, thread, ...) taken or
\* given back on behalf of the volume
Acquire(M, r) == Log([M EXCEPT !.host.held = @ \cup {r}], "acquire", r)
Release(M, r) ==
    IF r \in M.host.held
    THEN Log([M EXCEPT !.host.held = @ \ {r}], "release", r)
    ELSE M
Ret(M, r) == [M EXCEPT !.ret = r]
Fails(M, what) == what \in M.env.fail

test_opt(M, o) == o \in M.sb.s_mount_opt
RDONLY(M) == "MS_RDONLY" \in M.sb.s_flags

\* sbi->s_li_request when it is NULL; a request has lr_super = Vol
NULL_elr == [lr_super |-> "NULL", lr_next_group |-> 0, lr_timeout |-> 0,
             lr_next_sched |-> 0]

\* an unmounted super_block: every field as kzalloc and the VFS leave it
NoSb ==
    [s_fs_info |-> FALSE, s_flags |-> {}, s_mount_opt |-> {},
     s_mount_flags |-> {}, s_mount_state |-> {}, s_journal |-> FALSE,
     journal_bdev |-> FALSE, s_li_request |-> NULL_elr, s_li_wait_mult |-> 0,
     s_stripe |-> 0, s_commit_interval |-> 0, s_sbh |-> FALSE,
     s_gdb_count |-> 0, s_err_report |-> FALSE, s_root |-> FALSE,
     s_dirt |-> FALSE, s_frozen |-> FALSE, sbh_write_io_error |-> FALSE,
     s_kbytes_written |-> 0, s_sectors_written_start |-> 0,
     s_freeclusters_counter |-> 0, s_freeinodes_counter |-> 0]

NoJournal == [j_flags |-> {}, j_errno |-> "0"]

--------------------------------------------------------------------------
(* Superblock persist *)

\* ext4_commit_super from mark_buffer_dirty on: the buffer written at once
\* or left to the writeback
SubmitSuper(M, sync) ==
    IF sync
    THEN IF Fails(M, "sb_write")
         THEN Ret(Log([M EXCEPT !.disk.sb_dirty = FALSE,
                                !.sb.s_dirt = FALSE,
                                !.sb.sbh_write_io_error = TRUE],
                      "persist", "failed"), "EIO")
         ELSE Ret(Log([M EXCEPT !.disk.sb = M.es,
                                !.disk.sb_dirty = FALSE,
                                !.sb.s_dirt = FALSE],
                      "persist", "sync"), "0")
    ELSE Ret(Log([M EXCEPT !.disk.sb_dirty = TRUE, !.sb.s_dirt = FALSE],
                 "persist", "async"), "0")

\* ext4_commit_super without the block_device_ejected test.
ext4_commit_super_NoEjectTest(M, sync) ==
    IF ~M.sb.s_sbh
    THEN Ret(M, "0")
    ELSE IF sync
    THEN Ret(Log([M EXCEPT !.disk.sb = M.es, !.disk.sb_dirty = FALSE,
                           !.sb.s_dirt = FALSE, !.sb.sbh_write_io_error = FALSE],
                 "persist", "sync"), "0")
    ELSE Ret(Log([M EXCEPT !.disk.sb_dirty = TRUE, !.sb.s_dirt = FALSE,
                           !.sb.sbh_write_io_error = FALSE],
                 "persist", "async"), "0")

\* percpu_counter_sum_positive(fbc)
percpu_counter_sum_positive(n) == IF n < 0 THEN 0 ELSE n

\* ext4_commit_super that refreshes the write time alone.
RefreshSuper_WtimeOnly(M) ==
    [M EXCEPT !.es.s_wtime = IF RDONLY(M) THEN @ ELSE M.env.now]

\* ext4_commit_super: the fields refreshed in the record before it is
\* written: the write time unless the volume is read-only, the kbytes
\* written over the life of the volume, the free blocks and inodes
RefreshSuper(M) ==
    [M EXCEPT
       !.es.s_wtime = IF RDONLY(M) THEN @ ELSE M.env.now,
       !.es.s_kbytes_written =
           M.sb.s_kbytes_written
           + ((M.env.sectors - M.sb.s_sectors_written_start) \div 2),
       !.es.s_free_blocks_count =
           percpu_counter_sum_positive(M.sb.s_freeclusters_counter),
       !.es.s_free_inodes_count =
           percpu_counter_sum_positive(M.sb.s_freeinodes_counter)]

\* ext4_commit_super(sb, sync).  A synchronous write that fails leaves the
\* buffer's write_io_error bit set and the device as it was.
ext4_commit_super(M, sync) ==
    IF ~M.sb.s_sbh \/ M.disk.ejected
    THEN Ret(M, "0")
    ELSE SubmitSuper(
             RefreshSuper(
                 IF M.sb.sbh_write_io_error
                 THEN Log([M EXCEPT !.sb.sbh_write_io_error = FALSE],
                          "persist", "retry")
                 ELSE M),
             sync)

--------------------------------------------------------------------------
(* Fault reports *)

\* jbd2_journal_abort(journal, errno)
jbd2_journal_abort(M, errno) ==
    IF "JBD2_ABORT" \in M.jnl.j_flags
    THEN M
    ELSE [M EXCEPT !.jnl.j_flags = @ \cup {"JBD2_ABORT", "JBD2_REC_ERR"},
                   !.jnl.j_errno = IF @ = "0" THEN errno ELSE @,
                   !.disk.j_errno = IF M.jnl.j_errno = "0" THEN errno
                                    ELSE M.jnl.j_errno]

\* __save_error_info that records the fault in the superblock record only
\* and leaves the in-memory mount state alone.
save_error_info_EsOnly(M) ==
    [M EXCEPT !.es.s_state = @ \cup {"EXT4_ERROR_FS"},
              !.sb.s_err_report = IF M.es.s_error_count = 0 THEN TRUE ELSE @,
              !.es.s_error_count = @ + 1]

\* __save_error_info that rewrites the first-error fields on every report.
save_error_info_FirstEveryTime(M) ==
    [M EXCEPT !.sb.s_mount_state = @ \cup {"EXT4_ERROR_FS"},
              !.es.s_state = @ \cup {"EXT4_ERROR_FS"},
              !.es.s_last_error_time = M.env.now,
              !.es.s_last_error_func = M.env.func,
              !.es.s_last_error_line = M.env.line,
              !.es.s_first_error_time = M.env.now,
              !.es.s_first_error_func = M.env.func,
              !.es.s_first_error_line = M.env.line,
              !.es.s_first_error_ino = M.es.s_last_error_ino,
              !.es.s_first_error_block = M.es.s_last_error_block,
              !.sb.s_err_report = IF M.es.s_error_count = 0 THEN TRUE ELSE @,
              !.es.s_error_count = @ + 1]

\* __save_error_info(sb, func, line).  s_error_count is a __le32; the
\* counts, times, lines and inode numbers followed here stay far below
\* the wrap of their __le32 fields, and the function names are shorter
\* than the 32 bytes strncpy copies.
__save_error_info(M) ==
    LET first == M.es.s_first_error_time = 0
    IN  [M EXCEPT
           !.sb.s_mount_state = @ \cup {"EXT4_ERROR_FS"},
           !.es.s_state = @ \cup {"EXT4_ERROR_FS"},
           !.es.s_last_error_time = M.env.now,
           !.es.s_last_error_func = M.env.func,
           !.es.s_last_error_line = M.env.line,
           !.es.s_first_error_time =
               IF first THEN M.env.now ELSE @,
           !.es.s_first_error_func = IF first THEN M.env.func ELSE @,
           !.es.s_first_error_line =
               IF first THEN M.env.line ELSE @,
           !.es.s_first_error_ino =
               IF first THEN M.es.s_last_error_ino ELSE @,
           !.es.s_first_error_block =
               IF first THEN M.es.s_last_error_block ELSE @,
           !.sb.s_err_report = IF M.es.s_error_count = 0 THEN TRUE ELSE @,
           !.es.s_error_count = @ + 1]

\* save_error_info that leaves the write to the next writeback.
save_error_info_Async(M) == ext4_commit_super(__save_error_info(M), FALSE)

\* save_error_info(sb, func, line)
save_error_info(M) == ext4_commit_super(__save_error_info(M), TRUE)

\* the panic() tail that returns whenever a journal is bound.
PanicUnlessJournalPending_NoJournalOnly(M) ==
    IF M.sb.s_journal
    THEN M
    ELSE [M EXCEPT !.host.state = "panic"]

\* the panic() tail shared by ext4_handle_error and __ext4_abort
PanicUnlessJournalPending(M) ==
    IF M.sb.s_journal /\ "JBD2_REC_ERR" \notin M.jnl.j_flags
    THEN M
    ELSE [M EXCEPT !.host.state = "panic"]

\* ext4_handle_error that aborts under every policy.
ext4_handle_error_AbortsAlways(M0) ==
    LET M == Log(M0, "policy", "handle_error")
    IN
    IF RDONLY(M) THEN M
    ELSE LET A == [M EXCEPT !.sb.s_mount_flags =
                                @ \cup {"EXT4_MF_FS_ABORTED"}]
             M1 == IF A.sb.s_journal THEN jbd2_journal_abort(A, "EIO") ELSE A
             M2 == IF test_opt(M1, "ERRORS_RO")
                   THEN [M1 EXCEPT !.sb.s_flags = @ \cup {"MS_RDONLY"}]
                   ELSE M1
         IN  IF test_opt(M2, "ERRORS_PANIC")
             THEN PanicUnlessJournalPending(M2)
             ELSE M2

\* ext4_handle_error that forgets the aborted flag.
ext4_handle_error_NoAbortFlag(M) ==
    IF RDONLY(M) THEN M
    ELSE LET M1 == IF ~test_opt(M, "ERRORS_CONT")
                   THEN (IF M.sb.s_journal THEN jbd2_journal_abort(M, "EIO")
                         ELSE M)
                   ELSE M
             M2 == IF test_opt(M1, "ERRORS_RO")
                   THEN [M1 EXCEPT !.sb.s_flags = @ \cup {"MS_RDONLY"}]
                   ELSE M1
         IN  IF test_opt(M2, "ERRORS_PANIC")
             THEN PanicUnlessJournalPending(M2)
             ELSE M2

\* the body of ext4_handle_error
ApplyPolicy(M) ==
    IF RDONLY(M) THEN M
    ELSE LET M1 == IF ~test_opt(M, "ERRORS_CONT")
                   THEN LET A == [M EXCEPT !.sb.s_mount_flags =
                                               @ \cup {"EXT4_MF_FS_ABORTED"}]
                        IN  IF A.sb.s_journal
                            THEN jbd2_journal_abort(A, "EIO")
                            ELSE A
                   ELSE M
             M2 == IF test_opt(M1, "ERRORS_RO")
                   THEN [M1 EXCEPT !.sb.s_flags = @ \cup {"MS_RDONLY"}]
                   ELSE M1
         IN  IF test_opt(M2, "ERRORS_PANIC")
             THEN PanicUnlessJournalPending(M2)
             ELSE M2

\* ext4_handle_error(sb)
ext4_handle_error(M0) == ApplyPolicy(Log(M0, "policy", "handle_error"))

\* __ext4_error(sb, function, line, fmt, ...)
__ext4_error(M) == ext4_handle_error(save_error_info(M))

\* ext4_error_inode(inode, function, line, block, fmt, ...)
ext4_error_inode(M) ==
    ext4_handle_error(save_error_info(
        [M EXCEPT !.es.s_last_error_ino = M.env.ino,
                  !.es.s_last_error_block = M.env.block]))

\* ext4_error_file(file, function, line, block, fmt, ...)
ext4_error_file(M) ==
    ext4_handle_error(save_error_info(
        [M EXCEPT !.es.s_last_error_ino = M.env.ino]))

\* __ext4_std_error(sb, function, line, errno)
__ext4_std_error(M, errno, in_handle) ==
    IF errno = "EROFS" /\ ~in_handle /\ RDONLY(M)
    THEN M
    ELSE ext4_handle_error(save_error_info(M))

\* __ext4_abort(sb, function, line, fmt, ...)
__ext4_abort(M) ==
    LET M1 == Log(save_error_info(M), "policy", "abort")
        M2 == IF ~RDONLY(M1)
              THEN LET A == [M1 EXCEPT
                               !.sb.s_flags = @ \cup {"MS_RDONLY"},
                               !.sb.s_mount_flags = @ \cup {"EXT4_MF_FS_ABORTED"}]
                       B == IF A.sb.s_journal THEN jbd2_journal_abort(A, "EIO")
                            ELSE A
                   IN  save_error_info(B)
              ELSE M1
    IN  IF test_opt(M2, "ERRORS_PANIC")
        THEN PanicUnlessJournalPending(M2)
        ELSE M2

\* ext4_journal_start_sb(sb, nblocks): "handle" for a handle of the journal
\* or of ext4_get_nojournal
ext4_journal_start_sb(M) ==
    IF RDONLY(M) THEN Ret(M, "EROFS")
    ELSE IF ~M.sb.s_journal THEN Ret(M, "handle")
    ELSE IF "JBD2_ABORT" \in M.jnl.j_flags
    THEN Ret(__ext4_abort(M), "EROFS")
    ELSE IF Fails(M, "journal_start") THEN Ret(M, "ENOMEM")
    ELSE Ret(M, "handle")

\* __ext4_grp_locked_error(function, line, sb, grp, ino, block, fmt, ...)
__ext4_grp_locked_error(M) ==
    LET M1 == __save_error_info(
                  [M EXCEPT !.es.s_last_error_ino = M.env.ino,
                            !.es.s_last_error_block =
                                M.env.block])
    IN  IF test_opt(M1, "ERRORS_CONT")
        THEN ext4_commit_super(M1, FALSE)
        ELSE ext4_handle_error(M1)

--------------------------------------------------------------------------
(* Mount options.  An option is [tok, arg]: the token match_token finds    *)
(* and its integer argument, NoArg when the option was given bare.         *)

ERRORS_MASK == {"ERRORS_CONT", "ERRORS_RO", "ERRORS_PANIC"}

NoArg == -1     \* args->from = 0
Opt(tok) == [tok |-> tok, arg |-> NoArg]
OptArg(tok, arg) == [tok |-> tok, arg |-> arg]

\* handle_mount_opt(sb, opt, token, args, ..., is_remount): the machine
\* state with ret 1, or with ret -1 when the option is refused
handle_mount_opt(M, o, is_remount) ==
    CASE o.tok = "abort" ->
            Ret([M EXCEPT !.sb.s_mount_flags = @ \cup {"EXT4_MF_FS_ABORTED"}], "1")
      [] o.tok = "journal_dev" ->
            IF is_remount THEN Ret(M, "-1") ELSE Ret(M, "1")
      [] o.tok \in {"errors=continue", "errors=remount-ro", "errors=panic"} ->
            LET flag == CASE o.tok = "errors=continue" -> "ERRORS_CONT"
                          [] o.tok = "errors=remount-ro" -> "ERRORS_RO"
                          [] OTHER -> "ERRORS_PANIC"
            IN  Ret([M EXCEPT !.sb.s_mount_opt = (@ \ ERRORS_MASK) \cup {flag}], "1")
      [] o.tok = "noload" ->
            Ret([M EXCEPT !.sb.s_mount_opt = @ \cup {"NOLOAD"}], "1")
      [] o.tok = "noinit_itable" ->
            Ret([M EXCEPT !.sb.s_mount_opt = @ \ {"INIT_INODE_TABLE"}], "1")
      [] o.tok = "init_itable" ->
            Ret([M EXCEPT !.sb.s_mount_opt = @ \cup {"INIT_INODE_TABLE"},
                          !.sb.s_li_wait_mult =
                              IF o.arg = NoArg THEN EXT4_DEF_LI_WAIT_MULT
                              ELSE o.arg], "1")
      [] o.tok = "stripe" ->
            Ret([M EXCEPT !.sb.s_stripe = o.arg], "1")
      [] o.tok = "commit" ->
            Ret([M EXCEPT !.sb.s_commit_interval =
                              IF o.arg = 0 THEN JBD2_DEFAULT_MAX_COMMIT_AGE
                              ELSE o.arg], "1")
      [] OTHER -> Ret(M, "-1")      \* unrecognized mount option

\* parse_options(options, sb, ..., is_remount): the options are applied in
\* order; ret 0 at the first one refused (those before it stay applied)
RECURSIVE parse_options(_, _, _)
parse_options(M, options, is_remount) ==
    IF options = <<>>
    THEN Ret(M, "1")
    ELSE LET M1 == handle_mount_opt(M, Head(options), is_remount)
         IN  IF M1.ret = "-1" THEN Ret(M1, "0")
             ELSE parse_options(M1, Tail(options), is_remount)

--------------------------------------------------------------------------
(* Lazy inode-table initialisation.                                        *)
(* li = [info    : ext4_li_info is allocated,                              *)
(*       running : EXT4_LAZYINIT_RUNNING, the worker thread exists,        *)
(*       list    : the volumes whose request is on li_request_list]        *)
(* A request is [lr_next_group, lr_timeout, lr_next_sched]; lr_next_sched  *)
(* is kept as the jiffies still to pass until it is due (0: due).          *)

Vol == "V"      \* the volume the model follows

NoLi == [info |-> FALSE, running |-> FALSE, list |-> {}]

\* ext4_remove_li_request(elr) for this volume's request
ext4_remove_li_request(M) ==
    IF M.sb.s_li_request = NULL_elr
    THEN M
    ELSE Release([M EXCEPT !.li.list = @ \ {Vol}, !.sb.s_li_request = NULL_elr],
                 "li_request")

\* ext4_unregister_li_request(sb)
ext4_unregister_li_request(M) ==
    IF ~M.li.info THEN M ELSE ext4_remove_li_request(M)

\* ext4_clear_request_list(): every request on the list is removed
ext4_clear_request_list(M) ==
    [ext4_remove_li_request(M) EXCEPT !.li.list = {}]

\* ext4_run_lazyinit_thread()
ext4_run_lazyinit_thread(M) ==
    IF Fails(M, "kthread_run")
    THEN Ret([ext4_clear_request_list(M) EXCEPT !.li.info = FALSE,
                                               !.li.running = FALSE], "ENOMEM")
    ELSE Ret([M EXCEPT !.li.running = TRUE], "0")

\* ext4_li_request_new(sb, start)
ext4_li_request_new(M, start) ==
    [lr_super |-> Vol, lr_next_group |-> start, lr_timeout |-> 0,
     lr_next_sched |-> M.env.rnd]

\* ext4_register_li_request without the test that keeps read-only volumes
\* out of the queue.
ext4_register_li_request_NoRdonlyTest(M, first_not_zeroed) ==
    IF M.sb.s_li_request # NULL_elr
    THEN Ret([M EXCEPT !.sb.s_li_request.lr_timeout = 0], "0")
    ELSE IF first_not_zeroed = NGroups \/ ~test_opt(M, "INIT_INODE_TABLE")
    THEN Ret(M, "0")
    ELSE LET M2 == Acquire([M EXCEPT
                             !.li.info = TRUE,
                             !.li.list = @ \cup {Vol},
                             !.sb.s_li_request =
                                 ext4_li_request_new(M, first_not_zeroed)],
                           "li_request")
         IN  IF ~M2.li.running THEN ext4_run_lazyinit_thread(M2)
             ELSE Ret(M2, "0")

\* ext4_register_li_request(sb, first_not_zeroed)
ext4_register_li_request(M, first_not_zeroed) ==
    IF M.sb.s_li_request # NULL_elr
    THEN Ret([M EXCEPT !.sb.s_li_request.lr_timeout = 0], "0")
    ELSE IF first_not_zeroed = NGroups \/ RDONLY(M)
            \/ ~test_opt(M, "INIT_INODE_TABLE")
    THEN Ret(M, "0")
    ELSE IF Fails(M, "elr_alloc")
    THEN Ret(M, "ENOMEM")
    ELSE IF ~M.li.info /\ Fails(M, "eli_alloc")
    THEN Ret(M, "ENOMEM")
    ELSE LET M2 == Acquire([M EXCEPT
                             !.li.info = TRUE,
                             !.li.list = @ \cup {Vol},
                             !.sb.s_li_request =
                                 ext4_li_request_new(M, first_not_zeroed)],
                           "li_request")
         IN  IF ~M2.li.running THEN ext4_run_lazyinit_thread(M2)
             ELSE Ret(M2, "0")

\* ext4_init_inode_table(sb, group, barrier): refuses a read-only volume;
\* otherwise zeroes the inode table of the group, marks its descriptor
\* EXT4_BG_INODE_ZEROED and sets the descriptor checksum again; non-zero on
\* error
ext4_init_inode_table(M, group) ==
    IF RDONLY(M) THEN Ret(M, "1")
    ELSE IF Fails(M, "init_inode_table") THEN Ret(M, "EIO")
    ELSE LET g == [M.gd[group + 1] EXCEPT !.zeroed = TRUE]
         IN  Ret(Log([M EXCEPT !.gd[group + 1] =
                          [g EXCEPT !.bg_checksum =
                                        ext4_group_desc_csum(M.es, group, g)]],
                     "lazyinit", "init_inode_table"), "0")

\* the group the for loop of ext4_run_li_request stops at
LiNextGroup(M) ==
    LET from == M.sb.s_li_request.lr_next_group
        cand == {g \in from..(NGroups - 1) : ~M.gd[g + 1].zeroed}
    IN  IF cand = {} THEN NGroups
        ELSE CHOOSE g \in cand : \A h \in cand : g <= h

\* ext4_run_li_request that never moves lr_next_group on.
ext4_run_li_request_NoInit(M) ==
    LET group == LiNextGroup(M)
    IN  IF group = NGroups THEN Ret(M, "1")
        ELSE Ret([M EXCEPT !.sb.s_li_request.lr_next_sched =
                               M.sb.s_li_request.lr_timeout], "0")

\* ext4_run_li_request(elr)
ext4_run_li_request(M) ==
    LET group == LiNextGroup(M)
    IN  IF group = NGroups
        THEN Ret(M, "1")
        ELSE LET M1 == ext4_init_inode_table(M, group)
                 tmo == IF M.sb.s_li_request.lr_timeout = 0
                        THEN M.env.elapsed * M.sb.s_li_wait_mult
                        ELSE M.sb.s_li_request.lr_timeout
             IN  [M1 EXCEPT !.sb.s_li_request.lr_timeout = tmo,
                            !.sb.s_li_request.lr_next_sched = tmo,
                            !.sb.s_li_request.lr_next_group = group + 1]

\* One pass of the while loop of ext4_lazyinit_thread, from taking
\* li_list_mtx to going to sleep, and its exit_thread path when the list
\* is empty.
ext4_lazyinit_thread(M) ==
    IF M.li.list = {}
    THEN [M EXCEPT !.li.info = FALSE, !.li.running = FALSE]
    ELSE IF M.sb.s_li_request # NULL_elr /\ M.sb.s_li_request.lr_next_sched = 0
    THEN LET M1 == ext4_run_li_request(M)
         IN  IF M1.ret # "0" THEN ext4_remove_li_request(M1) ELSE M1
    ELSE M

--------------------------------------------------------------------------
(* Orphan cleanup.  disk.orphans[k] is the on-disk inode k of the chain:   *)
(* [i_nlink, ok]; ok is whether ext4_orphan_get can read it.  Inode k      *)
(* links to inode k - 1 (NEXT_ORPHAN), and 0 ends the chain.               *)

NEXT_ORPHAN(k) == k - 1

\* ext4_orphan_del that empties the list instead of moving the head on.
ext4_orphan_del_ClearsHead(M, k) ==
    [M EXCEPT !.es.s_last_orphan = 0, !.disk.sb_dirty = TRUE]

\* ext4_orphan_del(handle, inode) for the inode at the head of the chain:
\* the head pointer moves to the inode's next field, in the journalled
\* superblock buffer
ext4_orphan_del(M, k) ==
    [M EXCEPT !.es.s_last_orphan = NEXT_ORPHAN(k), !.disk.sb_dirty = TRUE]

\* ext4_orphan_get(sb, ino) that fails: ext4_iget reports an inode table
\* block it cannot read through ext4_error before it returns the error,
\* the other failures only warn
OrphanGetFailed(M) ==
    IF Fails(M, "orphan_get_error") THEN __ext4_error(M) ELSE M

\* The while loop that steps over an inode it cannot read.
RECURSIVE OrphanLoop_SkipsUnreadable(_)
OrphanLoop_SkipsUnreadable(M) ==
    LET k == M.es.s_last_orphan
    IN  IF k = 0 THEN M
        ELSE IF ~M.disk.orphans[k].ok
        THEN OrphanLoop_SkipsUnreadable(
                 [M EXCEPT !.es.s_last_orphan = NEXT_ORPHAN(k)])
        ELSE IF M.disk.orphans[k].i_nlink # 0
        THEN OrphanLoop_SkipsUnreadable(
                 Log(ext4_orphan_del(M, k), "orphan", "truncate"))
        ELSE OrphanLoop_SkipsUnreadable(
                 Log(ext4_orphan_del(M, k), "orphan", "delete"))

\* The while loop of ext4_orphan_cleanup
RECURSIVE OrphanLoop(_)
OrphanLoop(M) ==
    LET k == M.es.s_last_orphan
    IN  IF k = 0 THEN M
        ELSE IF ~M.disk.orphans[k].ok
        THEN [OrphanGetFailed(M) EXCEPT !.es.s_last_orphan = 0]
        ELSE IF M.disk.orphans[k].i_nlink # 0
        THEN OrphanLoop(Log(ext4_orphan_del(M, k), "orphan", "truncate"))
        ELSE OrphanLoop(Log(ext4_orphan_del(M, k), "orphan", "delete"))

\* ext4_orphan_cleanup without the test of the feature set.
ext4_orphan_cleanup_AnyFeatureSet(M) ==
    IF M.es.s_last_orphan = 0 \/ M.disk.bdev_ro THEN M
    ELSE IF "EXT4_ERROR_FS" \in M.sb.s_mount_state
    THEN [M EXCEPT !.es.s_last_orphan = 0]
    ELSE [OrphanLoop([M EXCEPT !.sb.s_flags = @ \ {"MS_RDONLY"}])
             EXCEPT !.sb.s_flags = M.sb.s_flags]

\* ext4_orphan_cleanup that stops after the first inode of the chain.
ext4_orphan_cleanup_OneInode(M) ==
    LET k == M.es.s_last_orphan
    IN  IF k = 0 \/ M.disk.bdev_ro
           \/ ~ext4_feature_set_ok(M.es, FALSE, M.host.lbdaf)
        THEN M
        ELSE IF ~M.disk.orphans[k].ok
        THEN [M EXCEPT !.es.s_last_orphan = 0]
        ELSE Log([ext4_orphan_del(M, k) EXCEPT !.es.s_last_orphan = 0],
                 "orphan", "delete")

\* ext4_orphan_cleanup(sb, es)
ext4_orphan_cleanup(M) ==
    LET s_flags == M.sb.s_flags
    IN  IF M.es.s_last_orphan = 0 THEN M
        ELSE IF M.disk.bdev_ro THEN M
        ELSE IF ~ext4_feature_set_ok(M.es, FALSE, M.host.lbdaf) THEN M
        ELSE IF "EXT4_ERROR_FS" \in M.sb.s_mount_state
        THEN [M EXCEPT !.es.s_last_orphan = 0]
        ELSE LET M1 == [M EXCEPT !.sb.s_flags = @ \ {"MS_RDONLY"}]
                 M2 == OrphanLoop(M1)
             IN  [M2 EXCEPT !.sb.s_flags = s_flags]

--------------------------------------------------------------------------
(* Journal binding *)

\* jbd2_journal_destroy(journal)
jbd2_journal_destroy(M) ==
    Release([M EXCEPT !.sb.s_journal = FALSE, !.jnl = NoJournal], "journal")

\* ext4_blkdev_remove(sbi)
ext4_blkdev_remove(M) ==
    IF M.sb.journal_bdev
    THEN Release([M EXCEPT !.sb.journal_bdev = FALSE], "journal_bdev")
    ELSE M

\* ext4_clear_journal_err up to its ext4_commit_super: the error of the
\* journal marked in the superblock and the superblock written
JournalErrRecorded(M) ==
    ext4_commit_super(
        [M EXCEPT !.sb.s_mount_state = @ \cup {"EXT4_ERROR_FS"},
                  !.es.s_state = @ \cup {"EXT4_ERROR_FS"}], TRUE)

\* ext4_clear_journal_err that clears the journal before it writes the
\* superblock.
ext4_clear_journal_err_ClearsFirst(M) ==
    IF M.jnl.j_errno # "0"
    THEN JournalErrRecorded(
             Log([M EXCEPT !.jnl.j_errno = "0", !.disk.j_errno = "0"],
                 "clear", "journal_err"))
    ELSE M

\* ext4_clear_journal_err(sb, es); jbd2_journal_clear_err and
\* jbd2_journal_update_sb_errno clear the code in the journal and in its
\* superblock on the device
ext4_clear_journal_err(M) ==
    IF M.jnl.j_errno # "0"
    THEN Log([JournalErrRecorded(M) EXCEPT !.jnl.j_errno = "0",
                                           !.disk.j_errno = "0"],
             "clear", "journal_err")
    ELSE M

\* ext4_mark_recovery_complete that goes on when the journal flush failed.
ext4_mark_recovery_complete_IgnoresFlush(M) ==
    IF ~EXT4_HAS_COMPAT_FEATURE(M.es, {"HAS_JOURNAL"}) THEN M
    ELSE IF EXT4_HAS_INCOMPAT_FEATURE(M.es, {"RECOVER"}) /\ RDONLY(M)
    THEN ext4_commit_super(
             [M EXCEPT !.es.s_feature_incompat = @ \ {"RECOVER"}], TRUE)
    ELSE M

\* ext4_mark_recovery_complete(sb, es)
ext4_mark_recovery_complete(M) ==
    IF ~EXT4_HAS_COMPAT_FEATURE(M.es, {"HAS_JOURNAL"}) THEN M
    ELSE IF Fails(M, "journal_flush") THEN M
    ELSE IF EXT4_HAS_INCOMPAT_FEATURE(M.es, {"RECOVER"}) /\ RDONLY(M)
    THEN ext4_commit_super(
             [M EXCEPT !.es.s_feature_incompat = @ \ {"RECOVER"}], TRUE)
    ELSE M

\* ext4_load_journal that refuses every read-only mount in need of
\* recovery, whether the device can be written or not.
ext4_load_journal_NoDeviceTest(M) ==
    LET really_read_only == M.disk.bdev_ro
        recover == EXT4_HAS_INCOMPAT_FEATURE(M.es, {"RECOVER"})
    IN  IF recover /\ RDONLY(M)
        THEN Ret(M, "EROFS")
        ELSE IF Fails(M, "journal_get")
        THEN Ret(M, "EINVAL")
        ELSE LET M1 == IF M.disk.j_external
                       THEN Acquire([M EXCEPT !.sb.journal_bdev = TRUE],
                                    "journal_bdev")
                       ELSE M
                 M2 == Acquire(M1, "journal")
             IN  IF Fails(M, "journal_load")
                 THEN Ret(Release(M2, "journal"), "EIO")
                 ELSE LET M3 == Log([M2 EXCEPT
                                      !.sb.s_journal = TRUE,
                                      !.jnl = [j_flags |-> {},
                                               j_errno |-> M.disk.j_errno]],
                                    "journal",
                                    IF recover THEN "replay" ELSE "wipe")
                      IN  Ret(ext4_clear_journal_err(M3), "0")

\* ext4_load_journal(sb, es, journal_devnum); ext4_get_journal and
\* ext4_get_dev_journal are its "journal_get" step
ext4_load_journal(M) ==
    LET really_read_only == M.disk.bdev_ro
        recover == EXT4_HAS_INCOMPAT_FEATURE(M.es, {"RECOVER"})
    IN  IF recover /\ RDONLY(M) /\ really_read_only
        THEN Ret(M, "EROFS")
        ELSE IF Fails(M, "journal_get")
        THEN Ret(M, "EINVAL")
        ELSE LET M1 == IF M.disk.j_external
                       THEN Acquire([M EXCEPT !.sb.journal_bdev = TRUE],
                                    "journal_bdev")
                       ELSE M
                 M2 == Acquire(M1, "journal")
             IN  IF Fails(M, "journal_load")
                 THEN Ret(Release(M2, "journal"), "EIO")
                 ELSE LET M3 == Log([M2 EXCEPT
                                      !.sb.s_journal = TRUE,
                                      !.jnl = [j_flags |-> {},
                                               j_errno |-> M.disk.j_errno]],
                                    "journal",
                                    IF recover THEN "replay" ELSE "wipe")
                      IN  Ret(ext4_clear_journal_err(M3), "0")

\* ext4_update_dynamic_rev(sb)
ext4_update_dynamic_rev(M) ==
    IF M.es.s_rev_level > EXT4_GOOD_OLD_REV THEN M
    ELSE [M EXCEPT !.es.s_rev_level = EXT4_DYNAMIC_REV]

\* ext4_setup_super(sb, es, read_only): ret is the flag to force, "0" or
\* "MS_RDONLY"
ext4_setup_super(M, read_only) ==
    LET res == IF M.es.s_rev_level > EXT4_MAX_SUPP_REV THEN "MS_RDONLY" ELSE "0"
    IN  IF read_only THEN Ret(Log(M, "step", "setup_super"), res)
        ELSE LET M1 == IF ~M.sb.s_journal
                       THEN [M EXCEPT !.es.s_state = @ \ {"EXT4_VALID_FS"}]
                       ELSE M
                 M2 == ext4_update_dynamic_rev(M1)
                 M3 == IF M.sb.s_journal
                       THEN [M2 EXCEPT !.es.s_feature_incompat =
                                           @ \cup {"RECOVER"}]
                       ELSE M2
             IN  Ret(ext4_commit_super(Log(M3, "step", "setup_super"), TRUE), res)

--------------------------------------------------------------------------
(* Mount: ext4_fill_super.  Its locals live in M.loc:                      *)
(*   [ret, db_count, first_not_zeroed, needs_recovery].                    *)
(* The volume has one group descriptor per descriptor block, so db_count   *)
(* is NGroups.  The geometry validations between the feature test and the  *)
(* descriptor load all leave through failed_mount like the feature test;   *)
(* the volumes followed here pass them.                                    *)

\* the buffer head of descriptor block i (sbi->s_group_desc[i])
GdBuf(i) == <<"gd0", "gd1", "gd2", "gd3">>[i + 1]

\* for (i = 0; i < db_count; i++) brelse(sbi->s_group_desc[i]), in the
\* order of the loop
RECURSIVE BrelseLoop(_, _, _)
BrelseLoop(M, i, db_count) ==
    IF i >= db_count THEN M
    ELSE BrelseLoop(Release(M, GdBuf(i)), i + 1, db_count)

\* out_fail: sb->s_fs_info = NULL; kfree(sbi); return ret
out_fail(M) ==
    Ret(Release([M EXCEPT !.sb = NoSb], "sbi"), M.loc.ret)

\* failed_mount: ext4_blkdev_remove(sbi); brelse(bh)
failed_mount(M) ==
    out_fail(Release(ext4_blkdev_remove(M), "sbh"))

\* failed_mount2: the descriptor buffers read so far
failed_mount2(M) ==
    failed_mount(BrelseLoop(M, 0, M.loc.db_count))

\* failed_mount3: the error timer, the counters, the MMP thread
failed_mount3(M) ==
    failed_mount2(Release(Release([M EXCEPT !.sb.s_err_report = FALSE],
                                  "counters"), "mmp"))

\* failed_mount_wq: the journal, when one is bound
failed_mount_wq(M) ==
    failed_mount3(IF M.sb.s_journal THEN jbd2_journal_destroy(M) ELSE M)

\* failed_mount4: destroy_workqueue
failed_mount4(M) == failed_mount_wq(Release(M, "wq"))

\* failed_mount4a: dput(sb->s_root)
failed_mount4a(M) ==
    failed_mount4(Release([M EXCEPT !.sb.s_root = FALSE], "root"))

\* failed_mount5: ext4_ext_release, ext4_release_system_zone
failed_mount5(M) == failed_mount4a(Release(M, "system_zone"))

\* failed_mount6: ext4_mb_release
failed_mount6(M) == failed_mount5(Release(M, "mballoc"))

\* failed_mount7 that leaves the lazy-init request on the queue.
failed_mount7_NoUnregister(M) == failed_mount6(M)

\* failed_mount7: ext4_unregister_li_request
failed_mount7(M) == failed_mount6(ext4_unregister_li_request(M))

\* from the orphan cleanup to return 0
FillSuperFinish(M) ==
    LET M1 == Log([M EXCEPT !.sb.s_mount_state = @ \cup {"EXT4_ORPHAN_FS"}],
                  "step", "orphan_cleanup")
        M2 == ext4_orphan_cleanup(M1)
        M3 == Log([M2 EXCEPT !.sb.s_mount_state = @ \ {"EXT4_ORPHAN_FS"}],
                  "step", "orphan_cleanup_done")
        M4 == IF M.loc.needs_recovery
              THEN ext4_mark_recovery_complete(M3)
              ELSE M3
        M5 == IF M4.es.s_error_count # 0
              THEN [M4 EXCEPT !.sb.s_err_report = TRUE]
              ELSE M4
    IN  Ret(M5, "0")

\* The tail of ext4_fill_super with the orphan cleanup moved ahead of
\* ext4_register_li_request.
FillSuperRegister_OrphansFirst(M) ==
    LET M1 == Acquire(Acquire(M, "system_zone"), "mballoc")
        M2 == FillSuperFinish(M1)
        M3 == ext4_register_li_request(Log(M2, "step", "register_li"),
                                       M.loc.first_not_zeroed)
    IN  IF M3.ret # "0" THEN failed_mount6(M3) ELSE Ret(M3, "0")

\* from ext4_setup_system_zone to kobject_init_and_add
FillSuperRegister(M) ==
    IF Fails(M, "setup_system_zone") THEN failed_mount4a(M)
    ELSE LET M1 == Acquire(M, "system_zone")
         IN  IF Fails(M, "mb_init") THEN failed_mount5(M1)
             ELSE LET M2 == Acquire(M1, "mballoc")
                      M3 == ext4_register_li_request(
                                Log(M2, "step", "register_li"),
                                M.loc.first_not_zeroed)
                  IN  IF M3.ret # "0" THEN failed_mount6(M3)
                      ELSE IF Fails(M, "kobject_init_and_add")
                      THEN failed_mount7(M3)
                      ELSE FillSuperFinish(M3)

\* no_journal: the overhead, the workqueue, the root inode, ext4_setup_super
FillSuperRoot(M) ==
    LET calc == M.es.s_overhead_clusters = 0
        M1 == IF calc THEN [M EXCEPT !.loc.ret = "0"] ELSE M
    IN  IF calc /\ Fails(M, "calculate_overhead")
        THEN failed_mount_wq([M EXCEPT !.loc.ret = "ENOMEM"])
        ELSE IF Fails(M, "alloc_workqueue") THEN failed_mount_wq(M1)
        ELSE LET M2 == Acquire(M1, "wq")
             IN  IF Fails(M, "ext4_iget")
                 THEN failed_mount4([M2 EXCEPT !.loc.ret = "EIO"])
                 ELSE IF Fails(M, "corrupt_root") THEN failed_mount4(M2)
                 ELSE IF Fails(M, "d_make_root")
                 THEN failed_mount4([M2 EXCEPT !.loc.ret = "ENOMEM"])
                 ELSE LET M3 == Acquire([M2 EXCEPT !.sb.s_root = TRUE], "root")
                          M4 == ext4_setup_super(M3, RDONLY(M3))
                          M5 == IF M4.ret # "0"
                                THEN [M4 EXCEPT !.sb.s_flags = @ \cup {"MS_RDONLY"}]
                                ELSE M4
                      IN  FillSuperRegister(M5)

\* the MMP start and the journal load
FillSuperJournal(M) ==
    LET M0 == [M EXCEPT !.loc.needs_recovery =
                   (M.es.s_last_orphan # 0
                    \/ EXT4_HAS_INCOMPAT_FEATURE(M.es, {"RECOVER"}))]
        mmp == EXT4_HAS_INCOMPAT_FEATURE(M.es, {"MMP"}) /\ ~RDONLY(M)
    IN  IF mmp /\ Fails(M, "multi_mount_protect") THEN failed_mount3(M0)
        ELSE LET M1 == IF mmp THEN Acquire(M0, "mmp") ELSE M0
             IN  IF ~test_opt(M1, "NOLOAD")
                    /\ EXT4_HAS_COMPAT_FEATURE(M1.es, {"HAS_JOURNAL"})
                 THEN LET M2 == ext4_load_journal(M1)
                      IN  IF M2.ret # "0" THEN failed_mount3(M2)
                          ELSE IF Fails(M, "journal_features")
                          THEN failed_mount_wq(M2)
                          ELSE FillSuperRoot(M2)
                 ELSE IF test_opt(M1, "NOLOAD") /\ ~RDONLY(M1)
                         /\ EXT4_HAS_INCOMPAT_FEATURE(M1.es, {"RECOVER"})
                 THEN failed_mount_wq(M1)
                 ELSE FillSuperRoot([M1 EXCEPT !.sb.s_journal = FALSE,
                                               !.loc.needs_recovery = FALSE])

\* ext4_get_stripe_size(sbi) on a volume without RAID hints in its
\* superblock (s_raid_stride and s_raid_stripe_width are 0)
ext4_get_stripe_size(M) ==
    LET ret == IF M.sb.s_stripe # 0 /\ M.sb.s_stripe <= BLOCKS_PER_GROUP
               THEN M.sb.s_stripe
               ELSE 0
    IN  IF ret <= 1 THEN 0 ELSE ret

\* the for loop reading the descriptor blocks, from block i on: ret is "0"
\* when all are read, "EIO" with db_count = i when block i cannot be read
RECURSIVE ReadGroupDesc(_, _)
ReadGroupDesc(M, i) ==
    IF i = NGroups THEN Ret(M, "0")
    ELSE IF Fails(M, "gd_bread") /\ M.env.idx = i
    THEN Ret([M EXCEPT !.loc.db_count = i], "EIO")
    ELSE ReadGroupDesc(Acquire(M, GdBuf(i)), i + 1)

\* ext4_count_free_clusters(sb) and ext4_count_free_inodes(sb): the free
\* counts of the descriptors added up, groups 0 .. n - 1
RECURSIVE ext4_count_free_clusters(_, _)
ext4_count_free_clusters(g, n) ==
    IF n = 0 THEN 0
    ELSE g[n].bg_free_blocks_count + ext4_count_free_clusters(g, n - 1)

RECURSIVE ext4_count_free_inodes(_, _)
ext4_count_free_inodes(g, n) ==
    IF n = 0 THEN 0
    ELSE g[n].bg_free_inodes_count + ext4_count_free_inodes(g, n - 1)

\* the descriptor load and verification, the counters
FillSuperDescriptors(M) ==
    LET M1 == ReadGroupDesc([M EXCEPT !.loc.db_count = NGroups], 0)
    IN  IF M1.ret # "0" THEN failed_mount2(M1)
        ELSE IF ~ext4_check_descriptors(M1.es, M1.gd, NGroups, RDONLY(M1),
                                        M1.disk.itb_per_group)
        THEN failed_mount2(M1)
        ELSE LET M2 == Log([M1 EXCEPT
                              !.loc.first_not_zeroed =
                                  ext4_has_uninit_itable(M1.gd, NGroups),
                              !.es.s_free_blocks_count =
                                  ext4_count_free_clusters(M1.gd, NGroups),
                              !.es.s_free_inodes_count =
                                  ext4_count_free_inodes(M1.gd, NGroups),
                              !.sb.s_gdb_count = M1.loc.db_count],
                           "step", "descriptors")
             IN  IF Fails(M, "percpu_counter_init") THEN failed_mount3(M2)
                 ELSE FillSuperJournal(
                          [Acquire(M2, "counters") EXCEPT
                              !.sb.s_stripe = ext4_get_stripe_size(M2),
                              !.sb.s_freeclusters_counter =
                                  ext4_count_free_clusters(M2.gd, NGroups),
                              !.sb.s_freeinodes_counter =
                                  ext4_count_free_inodes(M2.gd, NGroups)])

\* ext4_fill_super with the superblock record loaded for good
FillSuperLoaded(M) ==
    FillSuperDescriptors(
        Log([M EXCEPT !.sb.s_sbh = TRUE, !.sb.s_mount_state = M.es.s_state],
            "step", "superblock"))

\* The second load that takes the record whatever its magic.
FillSuperSecondLoad_AnyMagic(M) ==
    IF ~M.disk.reread THEN FillSuperLoaded(M)
    ELSE IF Fails(M, "sb_bread2") THEN failed_mount(Release(M, "sbh"))
    ELSE FillSuperLoaded(Acquire(Release(M, "sbh"), "sbh"))

\* ext4_fill_super: when the block size of the record is not the one the
\* superblock was read with, the buffer is released and the superblock is
\* read again, and its magic is tested again
FillSuperSecondLoad(M) ==
    IF ~M.disk.reread THEN FillSuperLoaded(M)
    ELSE IF Fails(M, "sb_bread2") THEN failed_mount(Release(M, "sbh"))
    ELSE IF ~M.disk.magic2
    THEN failed_mount(Acquire(Release(M, "sbh"), "sbh"))
    ELSE FillSuperLoaded(Acquire(Release(M, "sbh"), "sbh"))

\* ext4_fill_super(sb, data, silent); data is the option list
ext4_fill_super(M, data) ==
    LET M1 == Acquire([M EXCEPT !.sb.s_fs_info = TRUE], "sbi")
    IN  IF Fails(M, "sb_bread") THEN out_fail(M1)
        ELSE LET M2 == Acquire(M1, "sbh")
             IN  IF ~M2.es.s_magic THEN failed_mount(M2)
                 ELSE LET
    M3 == [M2 EXCEPT
             !.sb.s_mount_opt =
                 {"INIT_INODE_TABLE",
                  CASE M2.es.s_errors = "PANIC" -> "ERRORS_PANIC"
                    [] M2.es.s_errors = "CONTINUE" -> "ERRORS_CONT"
                    [] OTHER -> "ERRORS_RO"},
             !.sb.s_commit_interval = JBD2_DEFAULT_MAX_COMMIT_AGE,
             !.sb.s_li_wait_mult = EXT4_DEF_LI_WAIT_MULT,
             !.sb.s_sectors_written_start = M2.env.sectors,
             !.sb.s_kbytes_written = M2.es.s_kbytes_written]
    M4 == parse_options(M3, data, FALSE)
                      IN
    IF M4.ret = "0" THEN failed_mount(M4)
    ELSE IF ~ext4_feature_set_ok(M4.es, RDONLY(M4), M4.host.lbdaf)
    THEN failed_mount(M4)
    ELSE FillSuperSecondLoad(M4)

--------------------------------------------------------------------------
(* Remount *)

\* ext4_multi_mount_protect(sb, mmp_block): non-zero when another host has
\* the volume; otherwise the MMP thread is started
ext4_multi_mount_protect(M) ==
    IF Fails(M, "multi_mount_protect") THEN Ret(M, "1")
    ELSE Ret(Acquire(M, "mmp"), "0")

\* restore_opts that wipes the mount flags as well.
restore_opts_DropsMountFlags(M, old_sb_flags, old_opts, err) ==
    Ret([M EXCEPT !.sb.s_flags = old_sb_flags,
                  !.sb.s_mount_opt = old_opts.s_mount_opt,
                  !.sb.s_commit_interval = old_opts.s_commit_interval,
                  !.sb.s_mount_flags = {}], err)

\* restore_opts: what ext4_remount puts back before it returns err
restore_opts(M, old_sb_flags, old_opts, err) ==
    Ret([M EXCEPT !.sb.s_flags = old_sb_flags,
                  !.sb.s_mount_opt = old_opts.s_mount_opt,
                  !.sb.s_commit_interval = old_opts.s_commit_interval], err)

\* the tail of ext4_remount after the read-only/read-write transition
RemountFinish(M, old_sb_flags) ==
    LET M1 == IF RDONLY(M) \/ ~test_opt(M, "INIT_INODE_TABLE")
              THEN ext4_unregister_li_request(M)
              ELSE ext4_register_li_request(
                       M, ext4_has_uninit_itable(M.gd, NGroups))
        M2 == IF ~M1.sb.s_journal /\ "MS_RDONLY" \notin old_sb_flags
              THEN ext4_commit_super(M1, TRUE)
              ELSE M1
    IN  Ret(M2, "0")

\* ext4_remount after ext4_multi_mount_protect in the read-write branch
RemountMmpDone(D, old_sb_flags, old_opts) ==
    IF D.ret # "0"
    THEN restore_opts(D, old_sb_flags, old_opts, "EROFS")
    ELSE RemountFinish(D, old_sb_flags)

\* ext4_remount from the MMP test of the read-write branch on
RemountMmp(C, old_sb_flags, old_opts) ==
    IF EXT4_HAS_INCOMPAT_FEATURE(C.es, {"MMP"})
    THEN RemountMmpDone(ext4_multi_mount_protect(C), old_sb_flags, old_opts)
    ELSE RemountFinish(C, old_sb_flags)

\* ext4_remount after ext4_setup_super in the read-write branch
RemountSetupDone(B, old_sb_flags, old_opts) ==
    RemountMmp(IF B.ret = "0"
               THEN [B EXCEPT !.sb.s_flags = @ \ {"MS_RDONLY"}]
               ELSE B,
               old_sb_flags, old_opts)

\* ext4_remount after ext4_clear_journal_err in the read-write branch
RemountErrCleared(A, old_sb_flags, old_opts) ==
    RemountSetupDone(
        ext4_setup_super([A EXCEPT !.sb.s_mount_state = A.es.s_state], FALSE),
        old_sb_flags, old_opts)

\* ext4_remount: the read-only branch after the flags are set
RemountRoMarked(A, old_sb_flags) ==
    RemountFinish(IF A.sb.s_journal THEN ext4_mark_recovery_complete(A)
                  ELSE A,
                  old_sb_flags)

\* ext4_remount after the options are parsed and the abort option acted on
RemountChecked(M2, ro, old_sb_flags, old_opts) ==
    IF ro = RDONLY(M2) THEN RemountFinish(M2, old_sb_flags)
    ELSE IF "EXT4_MF_FS_ABORTED" \in M2.sb.s_mount_flags
    THEN restore_opts(M2, old_sb_flags, old_opts, "EROFS")
    ELSE IF ro
    THEN RemountRoMarked(
             [M2 EXCEPT
                !.sb.s_flags = @ \cup {"MS_RDONLY"},
                !.es.s_state =
                    IF "EXT4_VALID_FS" \notin M2.es.s_state
                       /\ "EXT4_VALID_FS" \in M2.sb.s_mount_state
                    THEN M2.sb.s_mount_state
                    ELSE @],
             old_sb_flags)
    ELSE IF ~ext4_feature_set_ok(M2.es, FALSE, M2.host.lbdaf)
    THEN restore_opts(M2, old_sb_flags, old_opts, "EROFS")
    ELSE IF \E g \in 0..(NGroups - 1) :
                ~ext4_group_desc_csum_verify(M2.es, g, M2.gd[g + 1])
    THEN restore_opts(M2, old_sb_flags, old_opts, "EINVAL")
    ELSE IF M2.es.s_last_orphan # 0
    THEN restore_opts(M2, old_sb_flags, old_opts, "EINVAL")
    ELSE RemountErrCleared(
             IF M2.sb.s_journal THEN ext4_clear_journal_err(M2) ELSE M2,
             old_sb_flags, old_opts)

\* ext4_remount after parse_options
RemountParsed(M1, ro, old_sb_flags, old_opts) ==
    IF M1.ret = "0"
    THEN restore_opts(M1, old_sb_flags, old_opts, "EINVAL")
    ELSE RemountChecked(
             IF "EXT4_MF_FS_ABORTED" \in M1.sb.s_mount_flags
             THEN __ext4_abort(M1)
             ELSE M1,
             ro, old_sb_flags, old_opts)

\* ext4_remount(sb, flags, data); ro is *flags & MS_RDONLY
ext4_remount(M, ro, data) ==
    RemountParsed(parse_options(M, data, TRUE), ro, M.sb.s_flags,
                  [s_mount_opt |-> M.sb.s_mount_opt,
                   s_commit_interval |-> M.sb.s_commit_interval])

--------------------------------------------------------------------------
(* Unmount, freeze, write_super *)

\* ext4_put_super that persists the superblock whatever the state of the
\* volume.
ext4_put_super_PersistAlways(M) ==
    LET M1 == Release(ext4_unregister_li_request(Release(M, "root")), "wq")
        aborted == "JBD2_ABORT" \in M1.jnl.j_flags
        M2 == IF M1.sb.s_journal
              THEN LET J == jbd2_journal_destroy(M1)
                   IN  IF aborted THEN __ext4_abort(J) ELSE J
              ELSE M1
        M3 == Release(Release([M2 EXCEPT !.sb.s_err_report = FALSE],
                              "system_zone"), "mballoc")
        M4 == IF ~RDONLY(M3)
              THEN [M3 EXCEPT !.es.s_feature_incompat = @ \ {"RECOVER"},
                              !.es.s_state = M3.sb.s_mount_state]
              ELSE M3
        M5 == ext4_commit_super(M4, TRUE)
        M6 == Release(Release(BrelseLoop(M5, 0, M5.sb.s_gdb_count),
                              "counters"), "sbh")
        M7 == [M6 EXCEPT !.disk.sb = IF M6.disk.sb_dirty THEN M6.es ELSE @,
                         !.disk.sb_dirty = FALSE,
                         !.es = IF M6.disk.sb_dirty THEN M6.es ELSE M6.disk.sb]
        M8 == Release(ext4_blkdev_remove(M7), "mmp")
    IN  Ret(Release([M8 EXCEPT !.sb = NoSb], "sbi"), "0")

\* ext4_put_super: kfree(sbi) and the return
PutSuperFreed(M8) == Ret(Release([M8 EXCEPT !.sb = NoSb], "sbi"), "0")

\* ext4_put_super: sync_blockdev, invalidate_bdev, ext4_blkdev_remove,
\* the MMP thread stopped
PutSuperSynced(M6) ==
    PutSuperFreed(
        Release(ext4_blkdev_remove(
                    [M6 EXCEPT
                       !.disk.sb = IF M6.disk.sb_dirty THEN M6.es ELSE @,
                       !.disk.sb_dirty = FALSE,
                       !.es = IF M6.disk.sb_dirty THEN M6.es
                              ELSE M6.disk.sb]),
                "mmp"))

\* ext4_put_super: the group-descriptor buffers, the counters and the
\* superblock buffer released
PutSuperBuffers(M5) ==
    PutSuperSynced(
        Release(Release(BrelseLoop(M5, 0, M5.sb.s_gdb_count), "counters"),
                "sbh"))

\* ext4_put_super: the final ext4_commit_super
PutSuperMarked(M4) ==
    PutSuperBuffers(IF M4.sb.s_dirt \/ ~RDONLY(M4)
                    THEN ext4_commit_super(M4, TRUE)
                    ELSE M4)

\* ext4_put_super: the needs-recovery bit cleared and the state set on a
\* writable volume
PutSuperPersist(M3) ==
    PutSuperMarked(
        IF ~RDONLY(M3)
        THEN [M3 EXCEPT !.es.s_feature_incompat = @ \ {"RECOVER"},
                        !.es.s_state = M3.sb.s_mount_state]
        ELSE M3)

\* ext4_put_super: the timer deleted, the system zone and mballoc released
PutSuperJournalGone(M2) ==
    PutSuperPersist(
        Release(Release([M2 EXCEPT !.sb.s_err_report = FALSE],
                        "system_zone"), "mballoc"))

\* ext4_put_super: ext4_abort when jbd2_journal_destroy returned an error
PutSuperDestroyed(J, aborted) == IF aborted THEN __ext4_abort(J) ELSE J

\* ext4_put_super: the journal destroyed when there is one
PutSuperUnregistered(M1) ==
    PutSuperJournalGone(
        IF M1.sb.s_journal
        THEN PutSuperDestroyed(jbd2_journal_destroy(M1),
                               "JBD2_ABORT" \in M1.jnl.j_flags)
        ELSE M1)

\* ext4_put_super(sb), entered after the VFS has dropped the root dentry.
\* jbd2_journal_destroy returns an error for a journal that was aborted;
\* sync_blockdev writes the superblock buffer out when it is dirty and
\* invalidate_bdev drops the cached copy.
ext4_put_super(M) ==
    PutSuperUnregistered(
        Release(ext4_unregister_li_request(Release(M, "root")), "wq"))

\* ext4_freeze(sb): an operation of ext4_sops, which only a volume with its
\* journal loaded gets, so s_journal is not NULL here
ext4_freeze(M) ==
    IF RDONLY(M) THEN Ret(M, "0")
    ELSE IF Fails(M, "journal_flush") THEN Ret(M, "EIO")
    ELSE ext4_commit_super(
             [M EXCEPT !.es.s_feature_incompat = @ \ {"RECOVER"}], TRUE)

\* ext4_unfreeze(sb)
ext4_unfreeze(M) ==
    IF RDONLY(M) THEN Ret(M, "0")
    ELSE Ret(ext4_commit_super(
                 [M EXCEPT !.es.s_feature_incompat = @ \cup {"RECOVER"}],
                 TRUE), "0")

\* ext4_write_super(sb)
ext4_write_super(M) == ext4_commit_super(M, TRUE)

--------------------------------------------------------------------------
(* Volumes.  A volume image is [es, gd, disk]: the superblock record, the  *)
(* group descriptors and the rest of the device.  Group i occupies the     *)
(* blocks from s_first_data_block + i * BLOCKS_PER_GROUP on, with its two  *)
(* bitmaps and a one-block inode table at its start.                       *)

BaseEs ==
    [s_magic |-> TRUE, s_state |-> {"EXT4_VALID_FS"}, s_errors |-> "RO",
     s_feature_compat |-> {"HAS_JOURNAL"}, s_feature_incompat |-> {},
     s_feature_ro_compat |-> {}, s_last_orphan |-> 0, s_error_count |-> 0,
     s_rev_level |-> EXT4_DYNAMIC_REV, s_uuid |-> 1,
     s_blocks_count |-> 1 + NGroups * BLOCKS_PER_GROUP,
     s_first_data_block |-> 1, s_overhead_clusters |-> 1,
     s_first_error_time |-> 0, s_first_error_func |-> "",
     s_first_error_line |-> 0, s_first_error_ino |-> 0,
     s_first_error_block |-> 0,
     s_last_error_time |-> 0, s_last_error_func |-> "",
     s_last_error_line |-> 0, s_last_error_ino |-> 0,
     s_last_error_block |-> 0,
     s_wtime |-> 1, s_kbytes_written |-> 0,
     s_free_blocks_count |-> NGroups * (BLOCKS_PER_GROUP - 3),
     s_free_inodes_count |-> NGroups * BLOCKS_PER_GROUP]

\* the descriptors mkfs writes for e; zeroed is the set of groups whose
\* inode table is zeroed already
MkGd(e, zeroed) ==
    [i \in 1..NGroups |->
        LET first == e.s_first_data_block + (i - 1) * BLOCKS_PER_GROUP
            g == [bg_block_bitmap |-> first, bg_inode_bitmap |-> first + 1,
                  bg_inode_table |-> first + 2, zeroed |-> (i - 1) \in zeroed,
                  bg_free_blocks_count |-> BLOCKS_PER_GROUP - 3,
                  bg_free_inodes_count |-> BLOCKS_PER_GROUP,
                  bg_checksum |-> 0]
        IN  [g EXCEPT !.bg_checksum = ext4_group_desc_csum(e, i - 1, g)]]

\* an orphan chain of n inodes; the inodes in linked keep a link
\* (truncate), the others have none (delete); those in bad cannot be read
MkOrphans(linked, bad) ==
    [k \in 1..MaxOrphans |->
        [i_nlink |-> IF k \in linked THEN 1 ELSE 0, ok |-> k \notin bad]]

BaseDisk(e) ==
    [sb |-> e, sb_dirty |-> FALSE, bdev_ro |-> FALSE, j_external |-> FALSE,
     j_errno |-> "0", ejected |-> FALSE, reread |-> FALSE, magic2 |-> TRUE,
     itb_per_group |-> 1, orphans |-> MkOrphans({}, {})]

Image(e, g, d) == [es |-> e, gd |-> g, disk |-> d]

BaseImage == Image(BaseEs, MkGd(BaseEs, {}), BaseDisk(BaseEs))

--------------------------------------------------------------------------
(* The lazy-init code statement by statement, for two volumes.  A request  *)
(* is a slot of the heap; a pointer is a slot number, 0 for NULL.  A slot  *)
(* that was freed may be handed out again by the next kzalloc.             *)

NSlots == 2
Slots == 1..NSlots
Vols == {Vol, "W"}

\* nothing mounted, no request, no registry, no worker
NoLz ==
    [mounted |-> [v \in Vols |-> FALSE],   \* sb->s_fs_info is set
     rdonly |-> [v \in Vols |-> FALSE],    \* sb->s_flags & MS_RDONLY
     locked |-> [v \in Vols |-> FALSE],    \* lock_super(sb) is held
     elr |-> [v \in Vols |-> 0],           \* sbi->s_li_request
     zeroed |-> [v \in Vols |-> 0],        \* groups with EXT4_BG_INODE_ZEROED
     live |-> [s \in Slots |-> FALSE],     \* the slot is allocated
     owner |-> [s \in Slots |-> Vol],      \* elr->lr_super, elr->lr_sbi
     list |-> <<>>,                        \* ext4_li_info->li_request_list
     info |-> FALSE,                       \* ext4_li_info is not NULL
     running |-> FALSE,                    \* li_state & EXT4_LAZYINIT_RUNNING
     li_mtx |-> "free",                    \* ext4_li_mtx: its owner
     list_mtx |-> "free",                  \* li_list_mtx: its owner
     wpc |-> "dead",                       \* where the worker is
     todo |-> <<>>,                        \* what is left of its list walk
     cur |-> 0,                            \* the request it is running
     starts |-> 0,                         \* the inits of this walk
     pc |-> [v \in Vols |-> "idle"],       \* where the caller for v is
     call |-> [v \in Vols |-> "none"],     \* mount, remount or unmount
     loc |-> [v \in Vols |-> 0],           \* its local elr
     unreg |-> [v \in Vols |-> FALSE],     \* unregister returned for v
     oops |-> FALSE]                       \* the kernel hit a freed request

--------------------------------------------------------------------------
(* The state and the environment of a call *)

NoLoc == [ret |-> "EINVAL", db_count |-> 0, first_not_zeroed |-> 0,
          needs_recovery |-> FALSE]

\* now is get_seconds(); func, line, ino and block are what the caller of
\* a fault report passes; sectors is part_stat_read(bd_part, sectors[1]),
\* the sectors written to the partition so far
NoEnv == [fail |-> {}, idx |-> 0, rnd |-> 0, elapsed |-> 0,
          now |-> 1, func |-> "ext4_fn", line |-> 1, ino |-> 0, block |-> 0,
          sectors |-> 0]

\* the machine state a handler starts from
Start(env) ==
    [sb |-> sb, es |-> es, gd |-> gd, disk |-> disk, jnl |-> jnl, li |-> li,
     host |-> host, env |-> env, log |-> <<>>, ret |-> "0", loc |-> NoLoc]

\* what a fault report is called with: the time of the call, the function
\* and line of the caller, the inode and the block (0 when the entry point
\* takes none)
NoAt == [now |-> 0, func |-> "", line |-> 0, ino |-> 0, block |-> 0]

NoArgs == [ro |-> FALSE, data |-> <<>>, fail |-> {}, errno |-> "0",
           in_handle |-> FALSE, at |-> NoAt]

\* the state a handler leaves, and the record of the call
Apply(name, args, M) ==
    /\ sb' = M.sb
    /\ es' = M.es
    /\ gd' = M.gd
    /\ disk' = M.disk
    /\ jnl' = M.jnl
    /\ li' = M.li
    /\ host' = M.host
    /\ op' = [name |-> name, args |-> args, ret |-> M.ret, log |-> M.log]
    /\ lz' = lz

InitFrom(images, builds) ==
    \E im \in images, lbdaf \in builds :
        /\ sb = NoSb
        /\ es = im.es
        /\ gd = im.gd
        /\ disk = im.disk
        /\ jnl = NoJournal
        /\ li = NoLi
        /\ host = [state |-> "up", lbdaf |-> lbdaf, held |-> {}]
        /\ op = [name |-> "none", args |-> NoArgs, ret |-> "0", log |-> <<>>]
        /\ lz = NoLz

Mounted == sb.s_fs_info
Up == host.state = "up"

--------------------------------------------------------------------------
(* Inputs *)

MountData ==
    {<<>>, <<Opt("abort")>>, <<Opt("noload")>>, <<Opt("noinit_itable")>>,
     <<OptArg("stripe", 2), Opt("bogus")>>}

RemountData ==
    {<<>>, <<Opt("abort")>>, <<OptArg("stripe", 2), Opt("bogus")>>,
     <<OptArg("init_itable", 1)>>}

\* the steps of ext4_fill_super that can fail for a reason outside the
\* volume image
MountFailPoints ==
    {"sb_bread", "sb_bread2", "gd_bread", "percpu_counter_init",
     "multi_mount_protect", "journal_get", "journal_load",
     "journal_features", "calculate_overhead", "alloc_workqueue",
     "ext4_iget", "corrupt_root", "d_make_root", "setup_system_zone",
     "mb_init",
     "elr_alloc", "eli_alloc", "kthread_run", "kobject_init_and_add",
     "journal_flush"}

MountEnvs ==
    {[NoEnv EXCEPT !.rnd = r] : r \in 0..MaxStartDelay}

FailingMountEnvs ==
    {[NoEnv EXCEPT !.fail = {f}] : f \in MountFailPoints \ {"gd_bread"}}
    \cup {[NoEnv EXCEPT !.fail = {"gd_bread"}, !.idx = i] :
             i \in 0..(NGroups - 1)}

RemountEnvs ==
    {NoEnv, [NoEnv EXCEPT !.fail = {"multi_mount_protect"}]}

WorkerEnvs ==
    {[NoEnv EXCEPT !.elapsed = t] : t \in 0..MaxElapsed}
    \cup {[NoEnv EXCEPT !.fail = {"init_inode_table"}]}

--------------------------------------------------------------------------
(* Actions *)

\* mount(2); the VFS opens a read-only device for a read-only mount only
MountWith(datas, envs) ==
    /\ Up /\ ~Mounted /\ ~disk.ejected
    /\ \E ro \in BOOLEAN, data \in datas, env \in envs :
          /\ ro \/ ~disk.bdev_ro
          /\ Apply("mount",
                   [NoArgs EXCEPT !.ro = ro, !.data = data, !.fail = env.fail],
                   ext4_fill_super(
                       [Start(env) EXCEPT
                           !.sb.s_flags = IF ro THEN {"MS_RDONLY"} ELSE {}],
                       data))

\* mount(2) with nothing failing outside the volume image
Mount == MountWith(MountData, MountEnvs)

\* mount(2) with one step failing
MountFailing == MountWith({<<>>}, FailingMountEnvs)

\* mount(2) without options, or with the abort option alone
MountPlain == MountWith({<<>>, <<Opt("abort")>>}, {NoEnv})

\* umount(2)
Unmount ==
    /\ Up /\ Mounted /\ ~sb.s_frozen
    /\ Apply("unmount", NoArgs, ext4_put_super(Start(NoEnv)))

\* mount -o remount; the VFS refuses a frozen volume, and a read-write
\* request on a read-only device.  A remount of an aborted volume records
\* a fault, so the cap on the faults of a run covers it.
Remount ==
    /\ Up /\ Mounted /\ ~sb.s_frozen
    /\ es.s_error_count < MaxErrors + 2
    /\ \E ro \in BOOLEAN, data \in RemountData, env \in RemountEnvs :
          /\ ro \/ ~disk.bdev_ro
          /\ Apply("remount",
                   [NoArgs EXCEPT !.ro = ro, !.data = data, !.fail = env.fail],
                   ext4_remount(Start(env), ro, data))

CanReport == Up /\ Mounted /\ ~sb.s_frozen /\ es.s_error_count < MaxErrors

\* ext4_error, ext4_error_inode, ext4_error_file
Error ==
    /\ CanReport
    /\ Apply("error", NoArgs, Ret(__ext4_error(Start(NoEnv)), "0"))

\* ext4_std_error
StdError ==
    /\ CanReport
    /\ \E errno \in {"EIO", "EROFS"}, in_handle \in BOOLEAN :
          Apply("std_error",
                [NoArgs EXCEPT !.errno = errno, !.in_handle = in_handle],
                Ret(__ext4_std_error(Start(NoEnv), errno, in_handle), "0"))

\* ext4_abort
Abort ==
    /\ CanReport
    /\ Apply("abort", NoArgs, Ret(__ext4_abort(Start(NoEnv)), "0"))

\* ext4_grp_locked_error
GrpLockedError ==
    /\ CanReport
    /\ Apply("grp_locked_error", NoArgs,
             Ret(__ext4_grp_locked_error(Start(NoEnv)), "0"))

\* the volume has ext4_sops: its journal is loaded.  Without one it has
\* ext4_nojournal_sops, which has write_super and neither freeze_fs nor
\* unfreeze_fs.
HasSops == sb.s_journal

\* the VFS writing the superblock out: ext4_write_super
WriteSuper ==
    /\ Up /\ Mounted /\ ~sb.s_frozen /\ ~HasSops
    /\ Apply("write_super", NoArgs, ext4_write_super(Start(NoEnv)))

\* freeze_super: ext4_freeze where the volume has it, and s_frozen when it
\* returns 0
Freeze ==
    /\ Up /\ Mounted /\ ~sb.s_frozen
    /\ \E env \in {NoEnv, [NoEnv EXCEPT !.fail = {"journal_flush"}]} :
          LET M == IF HasSops THEN ext4_freeze(Start(env))
                   ELSE Ret(Start(env), "0")
          IN  Apply("freeze", [NoArgs EXCEPT !.fail = env.fail],
                    IF M.ret = "0" THEN [M EXCEPT !.sb.s_frozen = TRUE] ELSE M)

\* thaw_super: ext4_unfreeze where the volume has it
Unfreeze ==
    /\ Up /\ Mounted /\ sb.s_frozen
    /\ LET M == IF HasSops THEN ext4_unfreeze(Start(NoEnv))
                ELSE Ret(Start(NoEnv), "0")
       IN  Apply("unfreeze", NoArgs, [M EXCEPT !.sb.s_frozen = FALSE])

\* the ext4lazyinit thread waking up
LazyInit ==
    /\ Up /\ li.running /\ ~sb.s_frozen
    /\ \E env \in WorkerEnvs :
          Apply("lazyinit", [NoArgs EXCEPT !.fail = env.fail],
                ext4_lazyinit_thread(Start(env)))

\* a jiffy passes
Tick ==
    /\ Up /\ sb.s_li_request # NULL_elr
    /\ sb.s_li_request.lr_next_sched > 0
    /\ Apply("tick", NoArgs,
             [Start(NoEnv) EXCEPT !.sb.s_li_request.lr_next_sched = @ - 1])

\* blockdev --setrw on the device
BdevSetRw ==
    /\ Up /\ disk.bdev_ro
    /\ Apply("setrw", NoArgs, [Start(NoEnv) EXCEPT !.disk.bdev_ro = FALSE])

--------------------------------------------------------------------------
(* The volume through its life *)

WithEs(im, e) ==
    Image(e, MkGd(e, {}), [im.disk EXCEPT !.sb = e])

\* the descriptors of im with the checksum of group 0 off by one
BadCsum(im) ==
    [im EXCEPT !.gd[1].bg_checksum = (@ + 1) % 65536]

SpecImages ==
    {BaseImage,
     WithEs(BaseImage, [BaseEs EXCEPT !.s_feature_compat = {},
                                      !.s_errors = "CONTINUE"]),
     WithEs(BaseImage, [BaseEs EXCEPT !.s_errors = "PANIC"]),
     [WithEs(BaseImage, [BaseEs EXCEPT !.s_last_orphan = MaxOrphans])
         EXCEPT !.disk.bdev_ro = TRUE],
     WithEs(BaseImage, [BaseEs EXCEPT !.s_last_orphan = MaxOrphans,
                            !.s_feature_ro_compat = {"RO_COMPAT_UNKNOWN"}]),
     WithEs(BaseImage, [BaseEs EXCEPT !.s_feature_incompat = {"MMP"}]),
     BadCsum(WithEs(BaseImage,
                    [BaseEs EXCEPT !.s_feature_ro_compat = {"GDT_CSUM"}])),
     [BaseImage EXCEPT !.disk.j_errno = "EIO"]}

Init == InitFrom(SpecImages, {TRUE})

Next ==
    \/ MountPlain
    \/ Unmount
    \/ Remount
    \/ Error
    \/ StdError
    \/ Abort
    \/ GrpLockedError
    \/ WriteSuper
    \/ Freeze
    \/ Unfreeze
    \/ BdevSetRw

Spec == Init /\ [][Next]_vars

--------------------------------------------------------------------------
(* Mounting every feature set *)

FeatureImages ==
    {WithEs(BaseImage, [BaseEs EXCEPT !.s_feature_incompat = inc,
                                      !.s_feature_ro_compat = roc,
                                      !.s_feature_compat = com]) :
        inc \in SUBSET {"EXTENTS", "FLEX_BG", "INCOMPAT_UNKNOWN"},
        roc \in SUBSET {"HUGE_FILE", "BIGALLOC", "RO_COMPAT_UNKNOWN"},
        com \in {{"HAS_JOURNAL"}, {"HAS_JOURNAL", "COMPAT_UNKNOWN"}}}

FeatureInit == InitFrom(FeatureImages, BOOLEAN)

FeatureNext ==
    \/ MountPlain
    \/ Unmount

FeatureSpec == FeatureInit /\ [][FeatureNext]_vars

UnknownIncompat ==
    EXT4_HAS_INCOMPAT_FEATURE(es, IncompatBits \ EXT4_FEATURE_INCOMPAT_SUPP)
UnknownRoCompat ==
    EXT4_HAS_RO_COMPAT_FEATURE(es, RoCompatBits \ EXT4_FEATURE_RO_COMPAT_SUPP)

\* the last call was a mount, and it failed or went through
MountFailed == op.name = "mount" /\ ~Mounted
MountDone == op.name = "mount" /\ Mounted /\ op.ret = "0"

\* C1: a superblock with an incompatible-feature bit outside the supported
\* set is refused by ext4_feature_set_ok, and so by mount, read-only or
\* not; one with supported incompatible bits only and an unknown
\* read-only-compatible bit is refused for a writable request and accepted
\* for a read-only one.
C1_FeatureGate ==
    /\ UnknownIncompat =>
          /\ \A readonly \in BOOLEAN :
                ~ext4_feature_set_ok(es, readonly, host.lbdaf)
          /\ op.name = "mount" => MountFailed /\ op.ret = "EINVAL"
    /\ (~UnknownIncompat /\ UnknownRoCompat) =>
          /\ ~ext4_feature_set_ok(es, FALSE, host.lbdaf)
          /\ ext4_feature_set_ok(es, TRUE, host.lbdaf)
          /\ (op.name = "mount" /\ ~op.args.ro) =>
                MountFailed /\ op.ret = "EINVAL"
          /\ (op.name = "mount" /\ op.args.ro) => MountDone

\* a read-only mount of a volume with an unknown read-only-compatible bit
\* that went through
C1_Witness ==
    /\ MountDone /\ op.args.ro
    /\ ~UnknownIncompat /\ UnknownRoCompat

--------------------------------------------------------------------------
(* Mounting every descriptor table *)

\* the descriptors of im with the checksum of group b off by one
BadCsumAt(im, b) ==
    [im EXCEPT !.gd[b + 1].bg_checksum = (@ + 1) % 65536]

\* the descriptors of im with the block bitmap of group b moved out of the
\* group, the checksum set for it
BadBitmapAt(im, b) ==
    LET g == [im.gd[b + 1] EXCEPT !.bg_block_bitmap = 0]
    IN  [im EXCEPT !.gd[b + 1] =
            [g EXCEPT !.bg_checksum = ext4_group_desc_csum(im.es, b, g)]]

DescImages ==
    LET plain == {WithEs(BaseImage,
                         [BaseEs EXCEPT !.s_feature_ro_compat = roc,
                                        !.s_feature_incompat = inc,
                                        !.s_uuid = u]) :
                     roc \in {{}, {"GDT_CSUM"}},
                     inc \in {{}, {"FLEX_BG"}},
                     u \in {1, 2}}
        csum == plain \cup {BadCsumAt(im, b) :
                               im \in plain, b \in 0..(NGroups - 1)}
    IN  csum \cup {BadBitmapAt(im, b) : im \in csum, b \in 0..(NGroups - 1)}

DescInit == InitFrom(DescImages, {TRUE})

DescNext ==
    \/ MountPlain
    \/ Unmount

DescSpec == DescInit /\ [][DescNext]_vars

\* every bitmap and inode table lies inside its group (the whole volume
\* with FLEX_BG)
DescriptorsInRange ==
    \A i \in 0..(NGroups - 1) :
        LET first_block == GroupFirstBlock(es, i)
            last_block == GroupLastBlock(es, i, NGroups)
            g == gd[i + 1]
        IN  /\ first_block <= g.bg_block_bitmap
            /\ g.bg_block_bitmap <= last_block
            /\ first_block <= g.bg_inode_bitmap
            /\ g.bg_inode_bitmap <= last_block
            /\ first_block <= g.bg_inode_table
            /\ g.bg_inode_table + disk.itb_per_group - 1 <= last_block

\* some stored checksum differs from the recomputed one
ChecksumMismatch ==
    \E i \in 0..(NGroups - 1) :
        gd[i + 1].bg_checksum # crc16(es.s_uuid, i, gd[i + 1])

ChecksumFeature == EXT4_HAS_RO_COMPAT_FEATURE(es, {"GDT_CSUM"})

\* C2: with the checksum feature on, a descriptor whose stored checksum
\* differs from the recomputed one makes ext4_check_descriptors, and the
\* mount, fail for a writable mount and pass for a read-only one; with the
\* feature off the checksum is never a cause of failure.
C2_DescriptorChecksum ==
    /\ (ChecksumFeature /\ ChecksumMismatch) =>
          /\ ~ext4_check_descriptors(es, gd, NGroups, FALSE, disk.itb_per_group)
          /\ ext4_check_descriptors(es, gd, NGroups, TRUE, disk.itb_per_group)
                = DescriptorsInRange
          /\ (op.name = "mount" /\ ~op.args.ro) => MountFailed
          /\ (op.name = "mount" /\ op.args.ro /\ DescriptorsInRange) => MountDone
    /\ ~ChecksumFeature =>
          /\ \A rdonly \in BOOLEAN :
                ext4_check_descriptors(es, gd, NGroups, rdonly,
                                       disk.itb_per_group) = DescriptorsInRange
          /\ (op.name = "mount" /\ DescriptorsInRange) => MountDone

\* a read-only mount that went through over a checksum mismatch
C2_Witness ==
    /\ MountDone /\ op.args.ro
    /\ ChecksumFeature /\ ChecksumMismatch

--------------------------------------------------------------------------
(* Remount.  A step of ext4_remount is one whose op' is a remount; the     *)
(* unprimed variables are the volume before the call.                      *)

RemountStep == op'.name = "remount" /\ host'.state = "up"

\* the volume is read-only / carries the aborted flag / an error flag
ReadOnly == "MS_RDONLY" \in sb.s_flags
Aborted == "EXT4_MF_FS_ABORTED" \in sb.s_mount_flags
ErrorFlagged ==
    "EXT4_ERROR_FS" \in sb.s_mount_state /\ "EXT4_ERROR_FS" \in es.s_state

\* parse_options refuses the option string of the call
OptionsRefused == parse_options(Start(NoEnv), op'.args.data, TRUE).ret = "0"

\* C3: a remount to read-write of a read-only volume whose s_last_orphan
\* is not zero returns EINVAL and leaves the volume as it was: read-only,
\* without a lazy-init request, its mount options and its fault state
\* (aborted flag, error flag, error count) unchanged.
C3_RemountSafety ==
    [][(RemountStep /\ ~op'.args.ro /\ ReadOnly /\ es.s_last_orphan # 0) =>
          /\ op'.ret = "EINVAL"
          /\ "MS_RDONLY" \in sb'.s_flags
          /\ sb'.s_li_request = sb.s_li_request /\ li' = li
          /\ sb'.s_mount_opt = sb.s_mount_opt
          /\ sb'.s_mount_flags = sb.s_mount_flags
          /\ sb'.s_mount_state = sb.s_mount_state
          /\ es'.s_state = es.s_state
          /\ es'.s_error_count = es.s_error_count]_vars

\* C4: when ext4_remount returns an error, s_flags, the mount options, the
\* mount flags, the tunables the options set and the superblock record are
\* what they were before the call.
C4_RemountRollback ==
    [][(RemountStep /\ op'.ret # "0") =>
          /\ sb'.s_flags = sb.s_flags
          /\ sb'.s_mount_opt = sb.s_mount_opt
          /\ sb'.s_mount_flags = sb.s_mount_flags
          /\ sb'.s_li_wait_mult = sb.s_li_wait_mult
          /\ sb'.s_stripe = sb.s_stripe
          /\ sb'.s_commit_interval = sb.s_commit_interval
          /\ es' = es]_vars

--------------------------------------------------------------------------
(* The aborted flag and the error flag through the life of a mount *)

\* the aborted flag, once set, stays set as long as the volume is mounted
AbortedStays == (Mounted /\ Aborted /\ Mounted') => Aborted'

FaultReportStep ==
    \/ op'.name \in {"error", "abort", "grp_locked_error"}
    \/ /\ op'.name = "std_error"
       /\ ~(op'.args.errno = "EROFS" /\ ~op'.args.in_handle /\ ReadOnly)

\* C8: a fault report leaves EXT4_ERROR_FS in s_mount_state and in
\* es->s_state; set in both, it stays in both through every later step that
\* keeps the volume mounted, a remount to read-write excepted; and a mount
\* of a record that carries the flag has it in both.
C8_ErrorFlaggedMonotonic ==
    [][/\ FaultReportStep => ErrorFlagged'
       /\ (/\ Mounted /\ ErrorFlagged /\ Mounted'
           /\ ~(op'.name = "remount" /\ ~op'.args.ro)) => ErrorFlagged'
       /\ (/\ op'.name = "mount" /\ Mounted'
           /\ "EXT4_ERROR_FS" \in es.s_state) => ErrorFlagged']_vars

\* a remount to read-only without options of a volume that was flagged
\* before the call and is not aborted
C8_Witness ==
    /\ op.name = "remount" /\ op.args.ro /\ op.args.data = <<>>
    /\ op.ret = "0" /\ Mounted /\ ~Aborted /\ ErrorFlagged

--------------------------------------------------------------------------
(* Mounting every orphan chain *)

\* mount(2) without options, nothing failing outside the volume image
MountNoOptions == MountWith({<<>>}, {NoEnv})

OrphanImages ==
    {[WithEs(BaseImage, [BaseEs EXCEPT !.s_last_orphan = n,
                                       !.s_state = st,
                                       !.s_feature_ro_compat = roc])
         EXCEPT !.disk.orphans = MkOrphans(linked, bad),
                !.disk.bdev_ro = bro,
                !.disk.j_errno = jerr] :
        n \in 0..MaxOrphans,
        st \in {{"EXT4_VALID_FS"}, {"EXT4_VALID_FS", "EXT4_ERROR_FS"}},
        roc \in {{}, {"RO_COMPAT_UNKNOWN"}},
        linked \in SUBSET (1..MaxOrphans),
        bad \in SUBSET (1..MaxOrphans),
        bro \in BOOLEAN,
        jerr \in {"0", "EIO"}}

OrphanInit == InitFrom(OrphanImages, {TRUE})

OrphanNext ==
    \/ MountNoOptions
    \/ Unmount
    \/ BdevSetRw

OrphanSpec == OrphanInit /\ [][OrphanNext]_vars

\* how often the event <<kind, what>> is in a log
Count(log, kind, what) ==
    Cardinality({i \in 1..Len(log) : log[i] = <<kind, what>>})

\* a mount that went through: ext4_orphan_cleanup has run on the chain the
\* unprimed es and disk hold
MountedStep == op'.name = "mount" /\ Mounted' /\ host'.state = "up"

\* the chain of s_last_orphan inodes was worked off: the head pointer is 0
\* and every inode of it was truncated or deleted
ChainProcessed ==
    /\ es'.s_last_orphan = 0
    /\ Count(op'.log, "orphan", "truncate") + Count(op'.log, "orphan", "delete")
          = es.s_last_orphan

\* C5 as stated: whatever the chain of N inodes, after ext4_orphan_cleanup
\* the head pointer is 0 and N inodes were truncated or deleted.
C5_OrphanConvergence_Original ==
    [][MountedStep => ChainProcessed]_vars

\* ext4_orphan_cleanup works the chain off: the device is writable, the
\* feature set can be mounted read-write, neither the superblock record nor
\* the journal carries an error, and every inode of the chain can be read
CleanupRuns ==
    /\ ~disk.bdev_ro
    /\ ext4_feature_set_ok(es, FALSE, host.lbdaf)
    /\ "EXT4_ERROR_FS" \notin es.s_state
    /\ disk.j_errno = "0"
    /\ \A k \in 1..es.s_last_orphan : disk.orphans[k].ok

\* C5: under CleanupRuns, ext4_orphan_cleanup leaves the head pointer 0 and
\* has truncated every inode of the chain that has links and deleted every
\* one that has none: N inodes in all.
C5_OrphanConvergence ==
    [][(MountedStep /\ CleanupRuns) =>
          /\ ChainProcessed
          /\ Count(op'.log, "orphan", "truncate") =
                Cardinality({k \in 1..es.s_last_orphan :
                                disk.orphans[k].i_nlink # 0})]_vars

\* a mount that truncated and deleted its way through a chain of
\* MaxOrphans inodes
C5_Witness ==
    /\ MountDone /\ es.s_last_orphan = 0
    /\ Count(op.log, "orphan", "truncate") >= 1
    /\ Count(op.log, "orphan", "delete") >= 1
    /\ Count(op.log, "orphan", "truncate") + Count(op.log, "orphan", "delete")
          = MaxOrphans

--------------------------------------------------------------------------
(* The lazy-init worker on a mounted volume.  The worker is a kernel       *)
(* thread: the scheduler runs it again and again, and jiffies advance, so  *)
(* both its pass and the clock are weakly fair.  Nothing unmounts.         *)

LiveImages ==
    {Image(e, MkGd(e, zeroed), BaseDisk(e)) :
        e \in {BaseEs, [BaseEs EXCEPT !.s_feature_ro_compat = {"GDT_CSUM"}]},
        zeroed \in SUBSET (0..(NGroups - 1))}

LiveInit == InitFrom(LiveImages, {TRUE})

LiveNext ==
    \/ Mount
    \/ LazyInit
    \/ Tick

LiveSpec ==
    LiveInit /\ [][LiveNext]_vars /\ WF_vars(LazyInit) /\ WF_vars(Tick)

\* the writable volume has its request on the worker's queue
Queued ==
    Mounted /\ ~ReadOnly /\ sb.s_li_request # NULL_elr /\ Vol \in li.list

AllZeroed == \A i \in 1..NGroups : gd[i].zeroed

\* the request is off the queue and the worker has exited
WorkerExited ==
    sb.s_li_request = NULL_elr /\ li.list = {} /\ ~li.running /\ ~li.info

\* C6 as stated: a queued request leads to every inode table zeroed, the
\* request off the queue and the worker gone.
C6_LazyInitCompletion_Original == Queued ~> (AllZeroed /\ WorkerExited)

\* the worker takes the request off the queue in this step
RequestRemoved ==
    /\ op'.name = "lazyinit"
    /\ sb.s_li_request # NULL_elr /\ sb'.s_li_request = NULL_elr

\* C6: a queued request leads to the request off the queue and the worker
\* gone; when the worker takes the request off, every inode table is
\* zeroed unless ext4_init_inode_table failed in that pass.
C6_LazyInitCompletion ==
    /\ Queued ~> WorkerExited
    /\ [][RequestRemoved =>
             (AllZeroed' \/ "init_inode_table" \in op'.args.fail)]_vars

\* the worker has exited after zeroing what the mount had found not zeroed
C6_Witness ==
    /\ op.name = "lazyinit" /\ Mounted /\ ~ReadOnly
    /\ AllZeroed /\ WorkerExited

--------------------------------------------------------------------------
(* Mounting with one step failing *)

MountImages ==
    {[WithEs(BaseImage, [BaseEs EXCEPT !.s_feature_incompat = inc,
                                       !.s_feature_compat = com,
                                       !.s_last_orphan = n,
                                       !.s_overhead_clusters = ovh])
         EXCEPT !.disk.j_external = ext,
                !.disk.reread = ext,
                !.disk.orphans = MkOrphans({1}, {})] :
        inc \in {{}, {"MMP"}, {"RECOVER"}},
        com \in {{"HAS_JOURNAL"}, {}},
        n \in {0, MaxOrphans},
        ovh \in {0, 1},
        ext \in BOOLEAN}

MountInit == InitFrom(MountImages, {TRUE})

MountNext ==
    \/ Mount
    \/ MountFailing
    \/ Unmount

MountSpec == MountInit /\ [][MountNext]_vars

\* the place of the last <<kind, what>> in a log, 0 when there is none
LastPos(log, kind, what) ==
    LET S == {i \in 1..Len(log) : log[i] = <<kind, what>>}
    IN  IF S = {} THEN 0 ELSE CHOOSE i \in S : \A j \in S : j <= i

\* the resources a log acquires
Acquired(log) ==
    {log[i][2] : i \in {j \in 1..Len(log) : log[j][1] = "acquire"}}

AcquiredBefore(log, a, b) ==
    LastPos(log, "acquire", a) < LastPos(log, "acquire", b)
ReleasedBefore(log, a, b) ==
    LastPos(log, "release", a) < LastPos(log, "release", b)

\* nothing of the failed mount is left: no resource held, no request of the
\* volume queued, no journal bound, s_fs_info NULL
FullyUnwound ==
    /\ host.held = {}
    /\ Vol \notin li.list
    /\ jnl = NoJournal
    /\ sb = NoSb

\* C9 as stated: a failed ext4_fill_super leaves nothing behind and has
\* released its resources in the reverse of the order it acquired them in.
C9_MountUnwinds_Original ==
    MountFailed =>
        /\ FullyUnwound
        /\ \A a, b \in Acquired(op.log) :
              AcquiredBefore(op.log, a, b) => ReleasedBefore(op.log, b, a)

GdBufs == {GdBuf(i) : i \in 0..(NGroups - 1)}

\* the pairs the failed_mount labels release in the order of acquisition:
\* the descriptor buffers among themselves, the counters before the MMP
\* thread, and all of these before the external journal device
InAcquisitionOrder(a, b) ==
    \/ a \in GdBufs /\ b \in GdBufs
    \/ a = "counters" /\ b = "mmp"
    \/ a \in GdBufs \cup {"counters", "mmp"} /\ b = "journal_bdev"

\* C9: a failed ext4_fill_super leaves nothing behind; it has released its
\* resources in the reverse of the order of acquisition, but for the pairs
\* of InAcquisitionOrder, which it releases in the order of acquisition.
C9_MountUnwinds ==
    MountFailed =>
        /\ FullyUnwound
        /\ \A a, b \in Acquired(op.log) :
              AcquiredBefore(op.log, a, b) =>
                  IF InAcquisitionOrder(a, b)
                  THEN ReleasedBefore(op.log, a, b)
                  ELSE ReleasedBefore(op.log, b, a)

\* a mount that failed with the MMP thread started, the journal loaded
\* from its external device and the lazy-init request queued
C9_Witness ==
    /\ MountFailed
    /\ {"mmp", "journal_bdev", "journal", "li_request"} \subseteq Acquired(op.log)

StepPos(what) == LastPos(op.log, "step", what)

\* where the journal was loaded, 0 when the mount loaded none
JournalPos ==
    IF LastPos(op.log, "journal", "replay") # 0
    THEN LastPos(op.log, "journal", "replay")
    ELSE LastPos(op.log, "journal", "wipe")

\* superblock, descriptors, journal, and ext4_setup_super: the start every
\* order of the steps shares
StepsToSetupSuper ==
    /\ 0 < StepPos("superblock")
    /\ StepPos("superblock") < StepPos("descriptors")
    /\ StepPos("descriptors") < StepPos("setup_super")
    /\ JournalPos # 0 =>
          /\ StepPos("descriptors") < JournalPos
          /\ JournalPos < StepPos("setup_super")

OrphansInsideCleanup ==
    \A i \in 1..Len(op.log) :
        op.log[i][1] = "orphan" =>
            /\ StepPos("orphan_cleanup") < i
            /\ i < StepPos("orphan_cleanup_done")

--------------------------------------------------------------------------
(* Unmount *)

UnmountStep == op'.name = "unmount" /\ host'.state = "up"

\* the places of <<kind, what>> in a log
Places(log, kind, what) == {i \in 1..Len(log) : log[i] = <<kind, what>>}

\* every a of the log comes before every b of it
AllBefore(log, a, b) ==
    \A i \in Places(log, a[1], a[2]), j \in Places(log, b[1], b[2]) : i < j

\* the releases ext4_put_super ends with: the descriptor buffers, the
\* superblock buffer and the mount context
FinalReleases == {<<"release", r>> : r \in GdBufs \cup {"sbh", "sbi"}}

\* the order of ext4_put_super: the lazy-init request goes, then the
\* journal, then the superblock is persisted, then the buffers and the
\* mount context are released
PutSuperOrdered(log) ==
    /\ AllBefore(log, <<"release", "li_request">>, <<"release", "journal">>)
    /\ AllBefore(log, <<"release", "li_request">>, <<"persist", "sync">>)
    /\ AllBefore(log, <<"release", "journal">>, <<"persist", "sync">>)
    /\ \A r \in FinalReleases :
          /\ AllBefore(log, <<"persist", "sync">>, r)
          /\ AllBefore(log, <<"release", "journal">>, r)
          /\ AllBefore(log, <<"release", "li_request">>, r)
    /\ \A r \in {"sbh", "sbi"} : Places(log, "release", r) # {}

\* C11 as stated: every unmount removes the lazy-init request, destroys
\* the journal, persists the superblock synchronously once and then
\* releases the buffers and the mount context, in this order; the persist
\* happens on every unmount.
C11_UnmountOrdering_Original ==
    (op.name = "unmount" /\ host.state = "up") =>
        /\ PutSuperOrdered(op.log)
        /\ Count(op.log, "persist", "sync") = 1

\* jbd2_journal_destroy returns an error: ext4_put_super calls ext4_abort,
\* which records the fault and turns a read-write volume read-only
JournalDestroyFails == sb.s_journal /\ "JBD2_ABORT" \in jnl.j_flags

\* C11: every unmount keeps the order request, journal, persist, releases.
\* With the journal destroyed without error, the one synchronous persist
\* happens exactly when the volume is read-write or its superblock is
\* marked dirty, and is left out on a clean read-only volume.  When the
\* destroy fails the only persists are those of ext4_abort recording the
\* fault: one on a read-only volume, two on a read-write one.
C11_UnmountOrdering ==
    [][UnmountStep =>
          /\ PutSuperOrdered(op'.log)
          /\ Count(op'.log, "persist", "sync") =
                IF JournalDestroyFails
                THEN (IF ReadOnly THEN 1 ELSE 2)
                ELSE IF ~ReadOnly \/ sb.s_dirt THEN 1 ELSE 0]_vars

\* an unmount of a read-write volume that had a request queued and its
\* journal loaded, and one of a read-only volume
C11_Witness ==
    /\ op.name = "unmount" /\ host.state = "up"
    /\ Places(op.log, "release", "li_request") # {}
    /\ Places(op.log, "release", "journal") # {}
    /\ Places(op.log, "persist", "sync") # {}

C11_WitnessReadOnly ==
    /\ op.name = "unmount" /\ host.state = "up"
    /\ Places(op.log, "persist", "sync") = {}

--------------------------------------------------------------------------
(* Registering for lazy initialization *)

RegisterEnvs ==
    {[NoEnv EXCEPT !.fail = f, !.rnd = r] :
        f \in {{}, {"elr_alloc"}, {"eli_alloc"}, {"kthread_run"}},
        r \in 0..MaxStartDelay}

\* the call of ext4_register_li_request that ext4_fill_super and
\* ext4_remount make, with first_not_zeroed as they compute it
Register ==
    /\ Up /\ Mounted /\ ~sb.s_frozen
    /\ \E env \in RegisterEnvs :
          Apply("register", [NoArgs EXCEPT !.fail = env.fail],
                ext4_register_li_request(Start(env),
                                         ext4_has_uninit_itable(gd, NGroups)))

RegisterInit == InitFrom(LiveImages, {TRUE})

RegisterNext ==
    \/ Mount
    \/ Unmount
    \/ LazyInit
    \/ Tick
    \/ Register

RegisterSpec == RegisterInit /\ [][RegisterNext]_vars

RegisterStep == op'.name = "register"
Pending == sb.s_li_request # NULL_elr
NothingToDo ==
    \/ ext4_has_uninit_itable(gd, NGroups) = NGroups
    \/ ReadOnly
    \/ "INIT_INODE_TABLE" \notin sb.s_mount_opt

\* C16: ext4_register_li_request only resets lr_timeout of a pending
\* request; queues nothing and starts no worker when every group is
\* zeroed, the volume is read-only or init_itable is off; otherwise, when
\* it returns 0, it has queued exactly one new request, for the first group
\* not zeroed, and a worker is running; when it fails nothing is queued.
C16_RegisterCases ==
    [][RegisterStep =>
          IF Pending
          THEN /\ op'.ret = "0"
               /\ li' = li
               /\ sb' = [sb EXCEPT !.s_li_request.lr_timeout = 0]
          ELSE IF NothingToDo
          THEN op'.ret = "0" /\ li' = li /\ sb' = sb
          ELSE IF op'.ret = "0"
          THEN /\ Vol \notin li.list
               /\ li'.list = li.list \cup {Vol}
               /\ li'.info /\ li'.running
               /\ sb'.s_li_request.lr_super = Vol
               /\ sb'.s_li_request.lr_next_group =
                      ext4_has_uninit_itable(gd, NGroups)
          ELSE /\ Vol \notin li'.list
               /\ sb'.s_li_request = NULL_elr]_vars

\* each case has happened: a pending request had its learned delay reset,
\* a read-only volume was left alone, and a request was queued with the
\* worker started
C16_Witness ==
    /\ op.name = "register" /\ op.ret = "0"
    /\ Vol \in li.list /\ li.running
    /\ sb.s_li_request.lr_timeout = 0
    /\ sb.s_li_request.lr_next_group > 0

--------------------------------------------------------------------------
(* The journal at mount: volumes with and without the journal feature,    *)
(* with and without the needs-recovery bit, on a device that is read-only *)
(* or not                                                                 *)

JournalImages ==
    {[WithEs(BaseImage, [BaseEs EXCEPT !.s_feature_incompat = inc,
                                       !.s_feature_compat = com])
         EXCEPT !.disk.bdev_ro = bro,
                !.disk.j_errno = jerr] :
        inc \in {{}, {"RECOVER"}},
        com \in {{"HAS_JOURNAL"}, {}},
        bro \in BOOLEAN,
        jerr \in {"0", "EIO"}}

JournalInit == InitFrom(JournalImages, {TRUE})

JournalNext ==
    \/ Mount
    \/ MountFailing
    \/ Unmount
    \/ Remount
    \/ BdevSetRw

JournalSpec == JournalInit /\ [][JournalNext]_vars

MountStep == op'.name = "mount"
NeedsRecovery == EXT4_HAS_INCOMPAT_FEATURE(es, {"RECOVER"})
JournalFeature == EXT4_HAS_COMPAT_FEATURE(es, {"HAS_JOURNAL"})
NoLoad(data) == \E i \in 1..Len(data) : data[i].tok = "noload"
Replayed(log) == Places(log, "journal", "replay") # {}

\* ext4_fill_super got as far as ext4_load_journal: the counters, the last
\* thing before it, are set up, the volume has a journal and noload is off
LoadJournalCalled ==
    /\ "counters" \in Acquired(op'.log)
    /\ JournalFeature
    /\ ~NoLoad(op'.args.data)

\* C18: on a read-only mount of a volume with the needs-recovery bit,
\* ext4_load_journal returns EROFS without opening, wiping or replaying the
\* journal when the device is read-only, and the mount fails with nothing
\* written; when the device is writable the journal is loaded and replayed
\* and the read-only mount goes through.
C18_ReplayRefusedOnReadOnlyDevice ==
    [][(MountStep /\ op'.args.ro /\ NeedsRecovery /\ LoadJournalCalled) =>
          LET R == ext4_load_journal(
                       [Start(NoEnv) EXCEPT !.sb.s_flags = {"MS_RDONLY"}])
          IN  IF disk.bdev_ro
              THEN /\ R.ret = "EROFS" /\ R.log = <<>>
                   /\ ~Mounted' /\ op'.ret # "0"
                   /\ Acquired(op'.log) \cap {"journal", "journal_bdev"} = {}
                   /\ \A i \in 1..Len(op'.log) : op'.log[i][1] # "journal"
                   /\ disk' = disk
              ELSE /\ R.ret = "0" /\ Replayed(R.log)
                   /\ op'.args.fail = {} =>
                         /\ Mounted' /\ op'.ret = "0"
                         /\ ReadOnly'
                         /\ sb'.s_journal
                         /\ Replayed(op'.log)]_vars

\* a read-only mount with the needs-recovery bit was refused on a
\* read-only device
C18_Witness ==
    /\ op.name = "mount" /\ op.args.ro /\ op.args.fail = {}
    /\ ~NoLoad(op.args.data)
    /\ ~Mounted /\ disk.bdev_ro
    /\ NeedsRecovery /\ JournalFeature
    /\ "counters" \in Acquired(op.log)

\* and one went through, with the journal replayed, on a writable device
C18_WitnessReplayed ==
    /\ op.name = "mount" /\ op.args.ro /\ Mounted /\ ~disk.bdev_ro
    /\ Replayed(op.log)


\* C19: no read-write mount goes through with the needs-recovery bit set
\* unless the journal was loaded and replayed; with noload, a read-write
\* request and the needs-recovery bit, the mount fails.
C19_ReplayMandatory ==
    [][(MountStep /\ ~op'.args.ro /\ NeedsRecovery) =>
          /\ Mounted' => (sb'.s_journal /\ Replayed(op'.log))
          /\ NoLoad(op'.args.data) => (~Mounted' /\ op'.ret # "0")]_vars

\* the same for the volumes that have the journal feature
C19_ReplayMandatoryWithJournal ==
    [][(MountStep /\ ~op'.args.ro /\ NeedsRecovery /\ JournalFeature) =>
          /\ Mounted' => (sb'.s_journal /\ Replayed(op'.log))
          /\ NoLoad(op'.args.data) => (~Mounted' /\ op'.ret # "0")]_vars


\* what ext4_mark_recovery_complete does to the current volume when the
\* journal flush fails (flush_fails) or not
MarkRecoveryComplete(flush_fails) ==
    ext4_mark_recovery_complete(
        Start([NoEnv EXCEPT !.fail = IF flush_fails THEN {"journal_flush"}
                                     ELSE {}]))

\* C20: ext4_mark_recovery_complete clears the needs-recovery bit and
\* persists the superblock synchronously exactly when the journal flush
\* succeeded, the volume is read-only and the bit was set; otherwise it
\* leaves the superblock, in memory and on the device, as it was.  So a
\* read-only mount that replayed the journal ends with the bit cleared
\* unless the flush failed, and a read-write one ends with the bit set.
C20_MarkRecoveryComplete ==
    /\ [](Mounted /\ Up /\ (sb.s_journal <=> JournalFeature) =>
            \A flush_fails \in BOOLEAN :
                LET R == MarkRecoveryComplete(flush_fails)
                IN  IF JournalFeature /\ ~flush_fails /\ ReadOnly
                       /\ NeedsRecovery
                    THEN /\ R.es = [es EXCEPT
                                      !.s_feature_incompat = @ \ {"RECOVER"}]
                         /\ R.disk.sb = R.es
                         /\ R.log = << <<"persist", "sync">> >>
                    ELSE /\ R.es = es
                         /\ R.disk = disk
                         /\ R.log = <<>>)
    /\ [][(MountStep /\ Mounted' /\ NeedsRecovery /\ Replayed(op'.log)) =>
            (NeedsRecovery' <=>
                (~op'.args.ro \/ "journal_flush" \in op'.args.fail))]_vars

\* a read-only mount replayed the journal and left the bit cleared on the
\* device
C20_Witness ==
    /\ op.name = "mount" /\ op.args.ro /\ Mounted
    /\ Replayed(op.log)
    /\ ~NeedsRecovery
    /\ ~EXT4_HAS_INCOMPAT_FEATURE(disk.sb, {"RECOVER"})

\* and one whose journal flush failed kept it
C20_WitnessFlushFailed ==
    /\ op.name = "mount" /\ op.args.ro /\ Mounted
    /\ Replayed(op.log)
    /\ NeedsRecovery

--------------------------------------------------------------------------
(* Lazy initialization with the worker and the callers interleaved.  The  *)
(* VFS runs one of mount, remount and unmount at a time on a volume; the  *)
(* worker runs beside them.  A step is what a thread does between two     *)
(* points where another thread can see or change what it works on.        *)

Others == <<sb, es, gd, disk, jnl, li, host, op>>

LzStep(z) == lz' = z /\ UNCHANGED Others

\* ext4_remove_li_request(elr) on an allocated request: list_del, the
\* owner's s_li_request = NULL, kfree
RemoveRequest(z, p) ==
    IF p = 0 THEN z
    ELSE [z EXCEPT !.list = SelectSeq(@, LAMBDA x : x # p),
                   !.elr[z.owner[p]] = 0,
                   !.owner[p] = Vol,
                   !.live[p] = FALSE]

\* a read or write through a pointer to a freed request: the kernel stops
\* on it, or it goes unnoticed
UseAfterFree(z) == {[z EXCEPT !.oops = TRUE], z}

InList(z, p) == \E i \in 1..Len(z.list) : z.list[i] = p

\* ext4_remove_li_request(elr) with whatever the pointer points at now: a
\* freed request, a request that kzalloc has handed to another caller and
\* that is not linked yet (list_del follows its NULL links), or a request
\* on the list
RemoveOutcomes(z, p) ==
    IF p = 0 THEN {z}
    ELSE IF ~z.live[p] THEN UseAfterFree(z)
    ELSE IF ~InList(z, p) THEN {[z EXCEPT !.oops = TRUE]}
    ELSE {RemoveRequest(z, p)}

\* ext4_clear_request_list()
RECURSIVE ClearList(_)
ClearList(z) ==
    IF z.list = <<>> THEN z ELSE ClearList(RemoveRequest(z, Head(z.list)))

\* mount(2) up to its call of ext4_register_li_request
VolMount(v) ==
    /\ ~lz.oops /\ ~lz.mounted[v] /\ lz.pc[v] = "idle"
    /\ \E ro \in BOOLEAN :
          LzStep([lz EXCEPT !.mounted[v] = TRUE, !.rdonly[v] = ro,
                            !.elr[v] = 0, !.pc[v] = "reg_check",
                            !.call[v] = "mount"])

\* ext4_remount: lock_super
VolRemount(v) ==
    /\ ~lz.oops /\ lz.mounted[v] /\ lz.pc[v] = "idle"
    /\ LzStep([lz EXCEPT !.locked[v] = TRUE, !.pc[v] = "flip",
                         !.call[v] = "remount"])

\* ext4_remount: the read-only flag takes its new value, and the request
\* is removed or registered accordingly
RemountFlip(v) ==
    /\ ~lz.oops /\ lz.pc[v] = "flip"
    /\ \E ro \in BOOLEAN :
          LzStep([lz EXCEPT !.rdonly[v] = ro,
                            !.pc[v] = IF ro THEN "unreg_lock"
                                      ELSE "reg_check"])

\* umount(2): ext4_put_super starts with ext4_unregister_li_request
VolUnmount(v) ==
    /\ ~lz.oops /\ lz.mounted[v] /\ lz.pc[v] = "idle"
    /\ LzStep([lz EXCEPT !.pc[v] = "unreg_lock", !.call[v] = "unmount"])

\* ext4_fill_super after its registration: kobject_init_and_add fails, and
\* failed_mount7 starts with ext4_unregister_li_request
MountUnwind(v) ==
    /\ ~lz.oops /\ lz.pc[v] = "done" /\ lz.call[v] = "mount"
    /\ LzStep([lz EXCEPT !.pc[v] = "unreg_lock", !.call[v] = "failed"])

\* what the call becomes when ext4_register_li_request returns an error:
\* ext4_fill_super goes to failed_mount6, ext4_remount ignores it
Failed(v) == IF lz.call[v] = "mount" THEN "failed" ELSE lz.call[v]

Gone(v) == lz.call[v] \in {"unmount", "failed"}

\* the rest of the call: ext4_remount unlocks the super block,
\* ext4_put_super and a failed ext4_fill_super free the mount context
VolReturn(v) ==
    /\ ~lz.oops /\ lz.pc[v] = "done"
    /\ LzStep([lz EXCEPT
                 !.pc[v] = "idle",
                 !.call[v] = "none",
                 !.loc[v] = 0,
                 !.locked[v] = IF lz.call[v] = "remount" THEN FALSE ELSE @,
                 !.mounted[v] = IF Gone(v) THEN FALSE ELSE @,
                 !.rdonly[v] = IF Gone(v) THEN FALSE ELSE @,
                 !.elr[v] = IF Gone(v) THEN 0 ELSE @])

\* ext4_register_li_request up to ext4_li_request_new
RegisterCheck(v) ==
    /\ ~lz.oops /\ lz.pc[v] = "reg_check"
    /\ IF lz.elr[v] # 0
       THEN IF lz.live[lz.elr[v]]
            THEN LzStep([lz EXCEPT !.pc[v] = "done"])
            ELSE \E z \in UseAfterFree(lz) :
                    LzStep([z EXCEPT !.pc[v] = "done"])
       ELSE IF lz.rdonly[v] \/ lz.zeroed[v] = NGroups
       THEN LzStep([lz EXCEPT !.pc[v] = "done"])
       ELSE \/ LzStep([lz EXCEPT !.pc[v] = "done", !.call[v] = Failed(v)])
            \/ \E s \in Slots :
                  /\ ~lz.live[s]
                  /\ LzStep([lz EXCEPT !.live[s] = TRUE, !.owner[s] = v,
                                       !.loc[v] = s, !.pc[v] = "reg_lock"])

\* mutex_lock(&ext4_li_mtx) and ext4_li_info_new when there is no registry
RegisterLock(v) ==
    /\ ~lz.oops /\ lz.pc[v] = "reg_lock" /\ lz.li_mtx = "free"
    /\ \/ LzStep([lz EXCEPT !.li_mtx = v, !.info = TRUE, !.pc[v] = "reg_add"])
       \/ /\ ~lz.info
          /\ LzStep([lz EXCEPT !.live[lz.loc[v]] = FALSE,
                                !.owner[lz.loc[v]] = Vol, !.loc[v] = 0,
                                !.pc[v] = "done", !.call[v] = Failed(v)])

\* list_add under li_list_mtx
RegisterAdd(v) ==
    /\ ~lz.oops /\ lz.pc[v] = "reg_add" /\ lz.list_mtx = "free"
    /\ LzStep([lz EXCEPT !.list = <<lz.loc[v]>> \o @, !.unreg[v] = FALSE,
                         !.pc[v] = "reg_set"])

\* sbi->s_li_request = elr
RegisterSet(v) ==
    /\ ~lz.oops /\ lz.pc[v] = "reg_set"
    /\ LzStep([lz EXCEPT !.elr[v] = lz.loc[v], !.loc[v] = 0,
                         !.pc[v] = "reg_run"])

\* ext4_run_lazyinit_thread when no worker runs, and mutex_unlock
RegisterRun(v) ==
    /\ ~lz.oops /\ lz.pc[v] = "reg_run"
    /\ IF lz.running
       THEN LzStep([lz EXCEPT !.li_mtx = "free", !.pc[v] = "done"])
       ELSE \/ LzStep([lz EXCEPT !.running = TRUE, !.wpc = "loop",
                                 !.li_mtx = "free", !.pc[v] = "done"])
            \/ LzStep([ClearList(lz) EXCEPT !.info = FALSE,
                                            !.li_mtx = "free",
                                            !.pc[v] = "done",
                                            !.call[v] = Failed(v)])

\* ext4_unregister_li_request: mutex_lock(&ext4_li_mtx), and the return
\* when there is no registry
UnregisterLock(v) ==
    /\ ~lz.oops /\ lz.pc[v] = "unreg_lock" /\ lz.li_mtx = "free"
    /\ IF lz.info
       THEN LzStep([lz EXCEPT !.li_mtx = v, !.pc[v] = "unreg_wait"])
       ELSE LzStep([lz EXCEPT !.unreg[v] = TRUE, !.pc[v] = "done"])

\* ext4_unregister_li_request: the removal without taking li_list_mtx.
UnregisterRemove_NoListLock(v) ==
    /\ ~lz.oops /\ lz.pc[v] = "unreg_wait"
    /\ \E z \in RemoveOutcomes(lz, lz.elr[v]) :
          LzStep([z EXCEPT !.li_mtx = "free", !.unreg[v] = TRUE,
                           !.pc[v] = "done"])

\* ext4_unregister_li_request: the removal under li_list_mtx
UnregisterRemove(v) ==
    /\ ~lz.oops /\ lz.pc[v] = "unreg_wait" /\ lz.list_mtx = "free"
    /\ \E z \in RemoveOutcomes(lz, lz.elr[v]) :
          LzStep([z EXCEPT !.li_mtx = "free", !.unreg[v] = TRUE,
                           !.pc[v] = "done"])

\* ext4_lazyinit_thread: mutex_lock(&eli->li_list_mtx) and the test for an
\* empty list
ThreadLock ==
    /\ ~lz.oops /\ lz.wpc = "loop" /\ lz.list_mtx = "free"
    /\ IF lz.list = <<>>
       THEN LzStep([lz EXCEPT !.wpc = "exit"])
       ELSE LzStep([lz EXCEPT !.list_mtx = "worker", !.todo = lz.list,
                              !.starts = 0, !.wpc = "walk"])

\* The visit that zeroes a group whatever the read-only flag says.
ThreadVisit_NoReadOnlyTest ==
    /\ ~lz.oops /\ lz.wpc = "walk" /\ lz.todo # <<>>
    /\ LET r == Head(lz.todo)
           v == lz.owner[r]
       IN  \/ LzStep([lz EXCEPT !.todo = Tail(@)])
           \/ IF ~lz.mounted[v]
              THEN \E z \in UseAfterFree(lz) :
                      LzStep([z EXCEPT !.todo = Tail(@)])
              ELSE IF lz.zeroed[v] = NGroups
              THEN LzStep([RemoveRequest(lz, r) EXCEPT !.todo = Tail(@)])
              ELSE LzStep([lz EXCEPT !.wpc = "init", !.cur = r,
                                     !.starts = @ + 1])

\* the next request of the walk: not due, or run by ext4_run_li_request,
\* which finds no group to zero, is refused by ext4_init_inode_table on a
\* read-only volume, or starts zeroing a group
ThreadVisit ==
    /\ ~lz.oops /\ lz.wpc = "walk" /\ lz.todo # <<>>
    /\ LET r == Head(lz.todo)
           v == lz.owner[r]
       IN  \/ LzStep([lz EXCEPT !.todo = Tail(@)])
           \/ IF ~lz.mounted[v]
              THEN \E z \in UseAfterFree(lz) :
                      LzStep([z EXCEPT !.todo = Tail(@)])
              ELSE IF lz.zeroed[v] = NGroups \/ lz.rdonly[v]
              THEN LzStep([RemoveRequest(lz, r) EXCEPT !.todo = Tail(@)])
              ELSE LzStep([lz EXCEPT !.wpc = "init", !.cur = r,
                                     !.starts = @ + 1])

\* ext4_init_inode_table returns: the group is zeroed, or the request is
\* removed on error
ThreadInitDone ==
    /\ ~lz.oops /\ lz.wpc = "init"
    /\ \/ LzStep([lz EXCEPT !.zeroed[lz.owner[lz.cur]] = @ + 1,
                            !.todo = Tail(@), !.wpc = "walk", !.cur = 0])
       \/ LzStep([RemoveRequest(lz, lz.cur) EXCEPT
                     !.todo = Tail(@), !.wpc = "walk", !.cur = 0])

\* the end of the walk: mutex_unlock(&eli->li_list_mtx), then sleep
ThreadUnlock ==
    /\ ~lz.oops /\ lz.wpc = "walk" /\ lz.todo = <<>>
    /\ LzStep([lz EXCEPT !.list_mtx = "free", !.starts = 0, !.wpc = "loop"])

\* exit_thread: mutex_lock(&ext4_li_mtx)
ThreadExitLock ==
    /\ ~lz.oops /\ lz.wpc = "exit" /\ lz.li_mtx = "free"
    /\ LzStep([lz EXCEPT !.li_mtx = "worker", !.wpc = "exit2"])

\* exit_thread that frees the registry without looking at the list again.
ThreadExit_NoRecheck ==
    /\ ~lz.oops /\ lz.wpc = "exit2" /\ lz.list_mtx = "free"
    /\ LzStep([lz EXCEPT !.info = FALSE, !.running = FALSE,
                         !.li_mtx = "free", !.wpc = "dead"])

\* exit_thread: under both mutexes, back to the loop when the list is not
\* empty, else kfree(ext4_li_info) and return
ThreadExit ==
    /\ ~lz.oops /\ lz.wpc = "exit2" /\ lz.list_mtx = "free"
    /\ IF lz.list # <<>>
       THEN LzStep([lz EXCEPT !.li_mtx = "free", !.wpc = "loop"])
       ELSE LzStep([lz EXCEPT !.info = FALSE, !.running = FALSE,
                              !.li_mtx = "free", !.wpc = "dead"])

\* the volumes whose mount options change while they are mounted
RemountVols == {Vol}

\* two volumes made by a mke2fs that left the inode table of the last
\* group to the worker
ConcInit ==
    /\ sb = NoSb
    /\ es = BaseImage.es
    /\ gd = BaseImage.gd
    /\ disk = BaseImage.disk
    /\ jnl = NoJournal
    /\ li = NoLi
    /\ host = [state |-> "up", lbdaf |-> TRUE, held |-> {}]
    /\ op = [name |-> "none", args |-> NoArgs, ret |-> "0", log |-> <<>>]
    /\ lz = [NoLz EXCEPT !.zeroed = [v \in Vols |-> NGroups - 1]]

ConcNext ==
    \/ \E v \in Vols : VolMount(v)
    \/ \E v \in RemountVols : VolRemount(v)
    \/ \E v \in Vols : RemountFlip(v)
    \/ \E v \in Vols : VolUnmount(v)
    \/ \E v \in Vols : MountUnwind(v)
    \/ \E v \in Vols : VolReturn(v)
    \/ \E v \in Vols : RegisterCheck(v)
    \/ \E v \in Vols : RegisterLock(v)
    \/ \E v \in Vols : RegisterAdd(v)
    \/ \E v \in Vols : RegisterSet(v)
    \/ \E v \in Vols : RegisterRun(v)
    \/ \E v \in Vols : UnregisterLock(v)
    \/ \E v \in Vols : UnregisterRemove(v)
    \/ ThreadLock
    \/ ThreadVisit
    \/ ThreadInitDone
    \/ ThreadUnlock
    \/ ThreadExitLock
    \/ ThreadExit

ConcSpec == ConcInit /\ [][ConcNext]_vars


--------------------------------------------------------------------------
(* Claims about the worker beside mount, remount and unmount *)

InInit(v) == lz.wpc = "init" /\ lz.owner[lz.cur] = v

\* C14: the worker never zeroes a group of a volume while a remount of
\* that volume holds the volume's super block lock: ext4_init_inode_table
\* and the option change exclude each other.
C14_PerVolumeExclusion ==
    \A v \in Vols : ~(InInit(v) /\ lz.locked[v])

\* the worker zeroes a group of a volume between two remounts
C14_InitBesideNoRemount ==
    \E v \in Vols : InInit(v) /\ ~lz.locked[v] /\ lz.pc[v] = "idle"

RequestsOf(v) == {i \in 1..Len(lz.list) : lz.owner[lz.list[i]] = v}

\* no call is running on a mounted volume
Quiet(v) == lz.mounted[v] /\ lz.pc[v] = "idle" /\ ~lz.oops

\* C15: the queue holds at most one request for a volume, and between two
\* calls a mounted volume's s_li_request is non-NULL exactly when a request
\* of the volume is in the queue.
C15_OneRequestPerVolume ==
    \A v \in Vols :
        /\ Cardinality(RequestsOf(v)) <= 1
        /\ Quiet(v) => (lz.elr[v] # 0 <=> RequestsOf(v) # {})

\* C15, the half the code keeps: the requests of the queue are allocated,
\* each once in the queue, at most one for a volume.
C15_QueueHasOnePerVolume ==
    /\ \A i \in 1..Len(lz.list) : lz.live[lz.list[i]]
    /\ \A i, j \in 1..Len(lz.list) : lz.list[i] = lz.list[j] => i = j
    /\ \A v \in Vols : Cardinality(RequestsOf(v)) <= 1

\* a mounted volume between two calls whose s_li_request points at a
\* request that was freed
C15_Dangling ==
    \E v \in Vols : Quiet(v) /\ lz.elr[v] # 0 /\ ~lz.live[lz.elr[v]]

WorkerOff(v) ==
    /\ RequestsOf(v) = {}
    /\ ~InInit(v)
    /\ \A i \in 1..Len(lz.todo) : lz.owner[lz.todo[i]] # v

\* C12: once ext4_unregister_li_request of a volume has returned, no
\* request of the volume is in the queue or in the worker's walk and the
\* worker zeroes no group of the volume, until the volume registers again;
\* and the call returns only when the worker is outside its walk, so that
\* a group initialization in progress has completed.
C12_UnmountWaitsForWorker ==
    /\ [](\A v \in Vols : (lz.unreg[v] \/ ~lz.mounted[v]) => WorkerOff(v))
    /\ [][\A v \in Vols :
            (~lz.unreg[v] /\ lz'.unreg[v]) =>
                lz.list_mtx # "worker" /\ lz.wpc \notin {"walk", "init"}]_vars

\* a volume is unmounted, its request removed, and the worker zeroes a
\* group of the other volume
C12_Witness ==
    /\ lz.unreg[Vol] /\ ~lz.mounted[Vol] /\ lz.zeroed[Vol] < NGroups
    /\ \E v \in Vols : InInit(v)

\* the unregister call waited for the worker's walk
C12_WitnessWaited ==
    lz.pc[Vol] = "unreg_wait" /\ lz.call[Vol] = "unmount" /\ InInit(Vol)

UnregisterWaits ==
    \E v \in Vols : lz.pc[v] = "unreg_wait" /\ lz.list_mtx = "worker"

\* C13: while ext4_unregister_li_request waits for the worker's walk, the
\* worker starts no group initialization after the first of the walk.
C13_BoundedBlocking ==
    [][(UnregisterWaits /\ lz.starts >= 1) =>
           ~(lz.wpc = "walk" /\ lz'.wpc = "init")]_vars

\* what the walk does start while a caller waits: at most one group
\* initialization for every request of the queue
C13_OnePerRequest ==
    lz.list_mtx = "worker" =>
        lz.starts + Len(lz.todo) - (IF lz.wpc = "init" THEN 1 ELSE 0)
            <= Cardinality(Vols)

\* C17: the worker returns and ext4_li_info is freed only with the queue
\* empty, seen under ext4_li_mtx and li_list_mtx; a queue that is not empty
\* while ext4_li_mtx is free has a worker; and ext4_li_info exists while a
\* request is queued or the worker lives.
C17_WorkerExitAndRestart ==
    /\ []((lz.list # <<>> /\ lz.li_mtx = "free") => lz.wpc # "dead")
    /\ []((lz.list # <<>> \/ lz.wpc # "dead") => lz.info)
    /\ [][(lz.wpc # "dead" /\ lz'.wpc = "dead") =>
            /\ lz.list = <<>> /\ lz'.list = <<>>
            /\ lz.li_mtx = "worker" /\ lz.list_mtx = "free"
            /\ ~lz'.info]_vars
    /\ [][(lz.info /\ ~lz'.info) => lz.li_mtx # "free" /\ lz'.list = <<>>
            /\ lz'.wpc = "dead"]_vars

\* a registration queued its request after the worker saw an empty queue
\* and before the worker took ext4_li_mtx to exit
C17_Witness ==
    lz.wpc = "exit2" /\ lz.list # <<>> /\ lz.info

\* the worker has exited and freed the registry after work was done
C17_WitnessExited ==
    lz.wpc = "dead" /\ ~lz.info /\ \E v \in Vols : lz.zeroed[v] = NGroups


--------------------------------------------------------------------------
(* Mounting descriptors that point anywhere on the device *)

\* the descriptors of im with field f of group b moved to block p, the
\* checksum set for it
MovedAt(im, b, f, p) ==
    LET g == [im.gd[b + 1] EXCEPT ![f] = p]
    IN  [im EXCEPT !.gd[b + 1] =
            [g EXCEPT !.bg_checksum = ext4_group_desc_csum(im.es, b, g)]]

DescFields == {"bg_block_bitmap", "bg_inode_bitmap", "bg_inode_table"}

RangeImages ==
    LET plain == {WithEs(BaseImage,
                         [BaseEs EXCEPT !.s_feature_ro_compat = roc,
                                        !.s_feature_incompat = inc]) :
                     roc \in {{}, {"GDT_CSUM"}},
                     inc \in {{}, {"FLEX_BG"}}}
    IN  plain \cup {MovedAt(im, b, f, p) :
                       im \in plain, b \in 0..(NGroups - 1), f \in DescFields,
                       p \in 0..BaseEs.s_blocks_count}

RangeInit == InitFrom(RangeImages, {TRUE})

RangeNext ==
    \/ MountPlain
    \/ Unmount

RangeSpec == RangeInit /\ [][RangeNext]_vars

\* the blocks of group i: BLOCKS_PER_GROUP blocks from the group's first,
\* cut at the end of the volume
OwnFirst(i) == es.s_first_data_block + i * BLOCKS_PER_GROUP
OwnLast(i) == Min(OwnFirst(i) + BLOCKS_PER_GROUP - 1, es.s_blocks_count - 1)

\* bitmaps and inode table of group i lie in the blocks lo..hi
DescWithin(i, lo, hi) ==
    LET g == gd[i + 1]
    IN  /\ lo <= g.bg_block_bitmap /\ g.bg_block_bitmap <= hi
        /\ lo <= g.bg_inode_bitmap /\ g.bg_inode_bitmap <= hi
        /\ lo <= g.bg_inode_table
        /\ g.bg_inode_table + disk.itb_per_group - 1 <= hi

InOwnGroup == \A i \in 0..(NGroups - 1) : DescWithin(i, OwnFirst(i), OwnLast(i))

InVolume ==
    \A i \in 0..(NGroups - 1) :
        DescWithin(i, es.s_first_data_block, es.s_blocks_count - 1)

FlexBg == EXT4_HAS_INCOMPAT_FEATURE(es, {"FLEX_BG"})

DescriptorsPass(rdonly) ==
    ext4_check_descriptors(es, gd, NGroups, rdonly, disk.itb_per_group)

\* C29 as stated: ext4_check_descriptors succeeds, and the mount goes
\* through, only if every group's bitmaps and inode table lie in the
\* group's own blocks, whatever the features.
C29_DescriptorRange_Original ==
    /\ \A rdonly \in BOOLEAN : DescriptorsPass(rdonly) => InOwnGroup
    /\ MountDone => InOwnGroup

\* C29: without FLEX_BG, ext4_check_descriptors succeeds, and the mount
\* goes through, only if every group's bitmaps and inode table lie in the
\* group's own blocks; with FLEX_BG, only if they lie between the first
\* data block and the last block of the volume.  A read-only mount
\* succeeds whenever they do.
C29_DescriptorRange ==
    LET ok == IF FlexBg THEN InVolume ELSE InOwnGroup
    IN  /\ \A rdonly \in BOOLEAN : DescriptorsPass(rdonly) => ok
        /\ DescriptorsPass(TRUE) = ok
        /\ MountDone => ok
        /\ (op.name = "mount" /\ ~ok) => (MountFailed /\ op.ret = "EINVAL")

\* a mount refused for a descriptor that points into another group
C29_Witness ==
    /\ MountFailed /\ ~FlexBg /\ InVolume /\ ~InOwnGroup

\* a FLEX_BG volume mounted with a descriptor that points into another
\* group
C29_WitnessFlexBg ==
    /\ MountDone /\ FlexBg /\ ~InOwnGroup


--------------------------------------------------------------------------
(* Remount from read-only to read-write *)

\* what ext4_remount requires of a volume before it makes it writable
WritableFeatures == ext4_feature_set_ok(es, FALSE, host.lbdaf)
ChecksumsVerify == ~(ChecksumFeature /\ ChecksumMismatch)
NoOrphans == es.s_last_orphan = 0

\* C30: a remount that asks for read-write on a read-only volume clears
\* the read-only flag only if the feature set can be mounted writable,
\* every group descriptor passes the checksum verification and
\* s_last_orphan is zero; when one of the three fails it returns an error
\* and the volume is still read-only.
C30_RemountReadWriteValidation ==
    [][(RemountStep /\ ~op'.args.ro /\ ReadOnly) =>
          LET ok == WritableFeatures /\ ChecksumsVerify /\ NoOrphans
          IN  /\ "MS_RDONLY" \notin sb'.s_flags => (ok /\ op'.ret = "0")
              /\ ~ok => (op'.ret \in {"EINVAL", "EROFS"}
                         /\ "MS_RDONLY" \in sb'.s_flags)]_vars

\* a remount to read-write refused for a descriptor checksum alone
C30_Witness ==
    /\ op.name = "remount" /\ ~op.args.ro /\ op.args.data = <<>>
    /\ op.ret = "EINVAL" /\ ReadOnly /\ ~Aborted
    /\ WritableFeatures /\ ~ChecksumsVerify /\ NoOrphans

\* a remount to read-write that went through
C30_WitnessWritable ==
    /\ op.name = "remount" /\ ~op.args.ro /\ op.ret = "0" /\ ~ReadOnly
    /\ WritableFeatures /\ ChecksumsVerify /\ NoOrphans


--------------------------------------------------------------------------
(* Fault reports with their diagnostics, under every error policy, with   *)
(* and without a journal, on a device that can be ejected and whose       *)
(* writes can fail                                                        *)

MaxTime == 2            \* get_seconds() runs over 1..MaxTime
ReportInodes == {1}     \* the inodes a report can name

SiteFunc(s) == IF s = 1 THEN "ext4_fn" ELSE "ext4_other"

\* a call at time n about inode i and block b, the superblock write failing
\* or not; the calls of different times come from different lines
ReportEnv(n, i, b, f) ==
    [NoEnv EXCEPT !.now = n, !.func = SiteFunc(n), !.line = n, !.ino = i,
                  !.block = b, !.fail = f]

WriteOutcomes == {{}, {"sb_write"}}

\* reports that name neither inode nor block
SiteEnvs == {ReportEnv(n, 0, 0, {}) : n \in 1..MaxTime}

\* the same, the write of the superblock failing or not
WriteEnvs ==
    {ReportEnv(n, 0, 0, f) : n \in 1..MaxTime, f \in WriteOutcomes}

\* reports that name an inode and a block (block 0: none)
InodeEnvs ==
    UNION {{ReportEnv(n, i, 0, {}), ReportEnv(n, i, i, {})} :
               n \in 1..MaxTime, i \in ReportInodes}

At(env, i, b) ==
    [now |-> env.now, func |-> env.func, line |-> env.line, ino |-> i,
     block |-> b]

ReportArgs(env, i, b) ==
    [NoArgs EXCEPT !.fail = env.fail, !.at = At(env, i, b)]

\* ext4_error
ErrorAt ==
    /\ CanReport
    /\ \E env \in WriteEnvs :
          Apply("error", ReportArgs(env, 0, 0),
                Ret(__ext4_error(Start(env)), "0"))

\* ext4_error_inode
ErrorInode ==
    /\ CanReport
    /\ \E env \in InodeEnvs :
          Apply("error_inode", ReportArgs(env, env.ino, env.block),
                Ret(ext4_error_inode(Start(env)), "0"))

\* ext4_error_file
ErrorFile ==
    /\ CanReport
    /\ \E env \in InodeEnvs :
          Apply("error_file", ReportArgs(env, env.ino, env.block),
                Ret(ext4_error_file(Start(env)), "0"))

\* ext4_std_error
StdErrorAt ==
    /\ CanReport
    /\ \E env \in SiteEnvs, errno \in {"EIO", "EROFS"}, in_handle \in BOOLEAN :
          Apply("std_error",
                [ReportArgs(env, 0, 0) EXCEPT !.errno = errno,
                                              !.in_handle = in_handle],
                Ret(__ext4_std_error(Start(env), errno, in_handle), "0"))

\* ext4_abort
AbortAt ==
    /\ CanReport
    /\ \E env \in SiteEnvs :
          Apply("abort", ReportArgs(env, 0, 0),
                Ret(__ext4_abort(Start(env)), "0"))

\* ext4_grp_locked_error
GrpLockedErrorAt ==
    /\ CanReport
    /\ \E env \in InodeEnvs :
          Apply("grp_locked_error", ReportArgs(env, env.ino, env.block),
                Ret(__ext4_grp_locked_error(Start(env)), "0"))

\* a writer starts a transaction: ext4_journal_start_sb.  It reports a
\* fault when it finds the journal aborted.
JournalStart ==
    /\ Up /\ Mounted /\ ~sb.s_frozen /\ es.s_error_count < MaxErrors + 2
    /\ Apply("journal_start", NoArgs, ext4_journal_start_sb(Start(NoEnv)))

\* the device is pulled out: block_device_ejected(sb) from now on
Eject ==
    /\ Up /\ Mounted /\ ~disk.ejected
    /\ disk' = [disk EXCEPT !.ejected = TRUE]
    /\ op' = [name |-> "eject", args |-> NoArgs, ret |-> "0", log |-> <<>>]
    /\ UNCHANGED <<sb, es, gd, jnl, li, host, lz>>

ReportImages ==
    {WithEs(BaseImage, [BaseEs EXCEPT !.s_errors = pol,
                                      !.s_feature_compat = com]) :
        pol \in {"CONTINUE", "RO", "PANIC"},
        com \in {{"HAS_JOURNAL"}, {}}}

\* mount -o remount,ro and mount -o remount,rw without further options
RemountPlain ==
    /\ Up /\ Mounted /\ ~sb.s_frozen
    /\ es.s_error_count < MaxErrors + 2
    /\ \E ro \in BOOLEAN :
          Apply("remount", [NoArgs EXCEPT !.ro = ro],
                ext4_remount(Start(NoEnv), ro, <<>>))

\* mount(2) without options, read-only or read-write
MountDefault == MountWith({<<>>}, {NoEnv})

ReportInit == InitFrom(ReportImages, {TRUE})

ReportNext ==
    \/ MountDefault
    \/ Unmount
    \/ RemountPlain
    \/ ErrorAt
    \/ ErrorInode
    \/ ErrorFile
    \/ StdErrorAt
    \/ AbortAt
    \/ GrpLockedErrorAt
    \/ JournalStart
    \/ Eject

ReportSpec == ReportInit /\ [][ReportNext]_vars


--------------------------------------------------------------------------
(* The record of the first fault and of the last fault                    *)

FirstError ==
    <<es.s_first_error_time, es.s_first_error_func, es.s_first_error_line,
      es.s_first_error_ino, es.s_first_error_block>>

LastError ==
    <<es.s_last_error_time, es.s_last_error_func, es.s_last_error_line,
      es.s_last_error_ino, es.s_last_error_block>>

\* a fault has been reported on the mounted superblock
Reported == Mounted /\ es.s_error_count > 0

ReportNames ==
    {"error", "error_inode", "error_file", "std_error", "abort",
     "grp_locked_error"}

\* the step is a fault report that recorded its fault
RecordingStep ==
    /\ op'.name \in ReportNames
    /\ es'.s_error_count > es.s_error_count

\* C22: once a fault has been reported on a superblock, the time, function,
\* line, inode and block of the first fault stay as that report wrote them,
\* whatever is reported or done on the mounted volume afterwards
C22_FirstErrorFrozen ==
    [][(Reported /\ Mounted') => FirstError' = FirstError]_vars

\* a later report from another place at another time was recorded, and the
\* first-fault fields still name the earlier one
C22_Witness ==
    /\ op.name \in ReportNames
    /\ es.s_error_count >= 2
    /\ es.s_first_error_time # es.s_last_error_time
    /\ es.s_first_error_line # es.s_last_error_line


\* C23: every fault report that records its fault, whichever entry point
\* made it, leaves the last-fault fields naming that report: its time, its
\* function and line, and the inode and block it was called with (0 when it
\* names none); no field keeps the value an earlier report wrote
C23_LastErrorDescribesReport ==
    [][RecordingStep =>
          LastError' = <<op'.args.at.now, op'.args.at.func, op'.args.at.line,
                         op'.args.at.ino, op'.args.at.block>>]_vars


\* the part of C23 about earlier reports alone: a report that names no
\* inode leaves no inode and no block of an earlier report in the record
LastErrorNotStale ==
    [][(RecordingStep /\ op'.args.at.ino = 0) =>
          (es'.s_last_error_ino = 0 /\ es'.s_last_error_block = 0)]_vars


--------------------------------------------------------------------------
(* The persist of a fault report and the error policy                     *)

\* the places of a log where a synchronous write of the superblock is
\* issued, whether it succeeds or not
SyncIssued(log) ==
    Places(log, "persist", "sync") \cup Places(log, "persist", "failed")

\* the places where the error policy is applied
PolicyPlaces(log) ==
    Places(log, "policy", "handle_error") \cup Places(log, "policy", "abort")

\* a synchronous persist is issued, and one is issued before the policy
SyncBeforePolicy(log) ==
    /\ SyncIssued(log) # {}
    /\ \A j \in PolicyPlaces(log) : \E i \in SyncIssued(log) : i < j

\* the error policy of the mounted volume
Policy(p) == p \in sb.s_mount_opt

C24_WitnessGrpLocked ==
    /\ op.name = "grp_locked_error"
    /\ ReadOnly /\ Aborted
    /\ es.s_error_count > disk.sb.s_error_count


--------------------------------------------------------------------------
(* Reports on a device that is gone or whose last write failed            *)

\* a record without its write time
SansWtime(e) == [e EXCEPT !.s_wtime = 0]

\* a record without the fields ext4_commit_super refreshes
SansRefreshed(e) ==
    [e EXCEPT !.s_wtime = 0, !.s_kbytes_written = 0,
              !.s_free_blocks_count = 0, !.s_free_inodes_count = 0]

\* ext4_commit_super, called now, writes nothing and returns success
CommitIsNoOp(sync) ==
    LET R == ext4_commit_super(Start(NoEnv), sync)
    IN  R.ret = "0" /\ R.log = <<>> /\ R.disk = disk /\ R.es = es

\* ext4_commit_super, called now, forgets the failed write and writes the
\* superblock again
CommitRetries ==
    LET R == ext4_commit_super(Start(NoEnv), TRUE)
    IN  /\ R.log = <<<<"persist", "retry">>, <<"persist", "sync">>>>
        /\ R.ret = "0" /\ ~R.sb.sbh_write_io_error
        /\ R.disk.sb = R.es /\ SansRefreshed(R.es) = SansRefreshed(es)

\* the policy of the volume has been applied to a volume that was writable
PolicyApplied ==
    /\ Policy("ERRORS_RO") => (ReadOnly' /\ Aborted')
    /\ Policy("ERRORS_PANIC") =>
          (Aborted' /\ (host'.state = "panic" <=>
                           (~sb.s_journal \/ "JBD2_REC_ERR" \in jnl'.j_flags)))
    /\ Policy("ERRORS_CONT") =>
          (sb'.s_flags = sb.s_flags /\ sb'.s_mount_flags = sb.s_mount_flags
           /\ host' = host)

\* the reports that go through ext4_handle_error
HandledNames == {"error", "error_inode", "error_file", "std_error"}

\* C25: with the device ejected or the superblock buffer absent,
\* ext4_commit_super writes nothing and returns success, and a fault report
\* made then still records the fault in memory and applies the policy,
\* recording no further fault; with a write error left on the buffer by an
\* earlier write, the persist clears it and writes again
C25_ReportingNeverFails ==
    [][/\ ((Mounted /\ disk.ejected) \/ ~sb.s_sbh) =>
              \A sync \in BOOLEAN : CommitIsNoOp(sync)
       /\ (RecordingStep /\ disk.ejected) =>
              /\ ErrorFlagged'
              /\ es'.s_last_error_time = op'.args.at.now
              /\ es'.s_error_count =
                    es.s_error_count
                    + (IF op'.name = "abort" /\ ~ReadOnly THEN 2 ELSE 1)
              /\ SyncIssued(op'.log) = {} /\ disk'.sb = disk.sb
              /\ (op'.name \in HandledNames /\ ~ReadOnly) => PolicyApplied
              /\ (op'.name = "abort" /\ ~ReadOnly) => (ReadOnly' /\ Aborted')
       /\ (Mounted /\ ~disk.ejected /\ sb.sbh_write_io_error) => CommitRetries
       /\ (RecordingStep /\ ~disk.ejected /\ sb.sbh_write_io_error
           /\ op'.name # "grp_locked_error"
           /\ "sb_write" \notin op'.args.fail) =>
              /\ op'.log[1] = <<"persist", "retry">>
              /\ disk'.sb = es' /\ ~sb'.sbh_write_io_error]_vars

\* a fault was reported on an ejected device: it is recorded in memory
\* alone and the volume went read-only
C25_Witness ==
    /\ op.name \in HandledNames /\ disk.ejected
    /\ es.s_error_count > disk.sb.s_error_count
    /\ op.log = <<<<"policy", "handle_error">>>>
    /\ ReadOnly /\ Aborted

\* a report found the write error an earlier report left and wrote the
\* superblock again
C25_WitnessRetry ==
    /\ op.name \in ReportNames
    /\ Places(op.log, "persist", "retry") # {}
    /\ disk.sb = es /\ es.s_error_count >= 2


--------------------------------------------------------------------------
(* What a report changes under each error policy                          *)

\* a super_block, an on-disk superblock record and a device with the
\* fields a fault record and its persist write blanked out
SbFrame(s) ==
    [s EXCEPT !.s_mount_state = {}, !.s_err_report = FALSE,
              !.s_dirt = FALSE, !.sbh_write_io_error = FALSE]

EsFrame(e) ==
    [e EXCEPT !.s_state = {}, !.s_error_count = 0,
              !.s_first_error_time = 0, !.s_first_error_func = "",
              !.s_first_error_line = 0, !.s_first_error_ino = 0,
              !.s_first_error_block = 0,
              !.s_last_error_time = 0, !.s_last_error_func = "",
              !.s_last_error_line = 0, !.s_last_error_ino = 0,
              !.s_last_error_block = 0]

DiskFrame(d) == [d EXCEPT !.sb = EsFrame(@), !.sb_dirty = FALSE]

\* the step is a call of ext4_error, ext4_error_inode or ext4_error_file
ErrorStep == op'.name \in {"error", "error_inode", "error_file"}

\* C26 as stated: under errors=continue a call of ext4_error on a writable
\* volume leaves the read-only flag and the aborted flag as they were
\* (clear), and the journal as it was (not aborted by the call); the call
\* changes the diagnostic fields, the error flag and the error counter in
\* memory and on the device (with the timer and the buffer state of the
\* record), and nothing else
C26_ContinueFrame_Original ==
    [][(ErrorStep /\ Policy("ERRORS_CONT") /\ ~ReadOnly) =>
          /\ ~ReadOnly' /\ (Aborted' <=> Aborted)
          /\ jnl' = jnl /\ host' = host /\ gd' = gd /\ li' = li
          /\ SbFrame(sb') = SbFrame(sb)
          /\ EsFrame(es') = EsFrame(es)
          /\ DiskFrame(disk') = DiskFrame(disk)
          /\ ErrorFlagged' /\ es'.s_error_count = es.s_error_count + 1]_vars

\* C26: under errors=continue a call of ext4_error on a writable volume
\* leaves the read-only flag and the aborted flag as they were (clear), and
\* the journal as it was (not aborted by the call); the call changes the
\* diagnostic fields, the error flag and the error counter, and the fields
\* its ext4_commit_super refreshes (the write time, which becomes the time
\* of the call unless the device is gone, the kbytes written, the free
\* counts), in memory and on the device, and nothing else
C26_ContinueFrame ==
    [][(ErrorStep /\ Policy("ERRORS_CONT") /\ ~ReadOnly) =>
          /\ ~ReadOnly' /\ (Aborted' <=> Aborted)
          /\ jnl' = jnl /\ host' = host /\ gd' = gd /\ li' = li
          /\ SbFrame(sb') = SbFrame(sb)
          /\ SansRefreshed(EsFrame(es')) = SansRefreshed(EsFrame(es))
          /\ es'.s_wtime =
                IF disk.ejected THEN es.s_wtime ELSE op'.args.at.now
          /\ [DiskFrame(disk') EXCEPT !.sb = SansRefreshed(@)] =
                [DiskFrame(disk) EXCEPT !.sb = SansRefreshed(@)]
          /\ ErrorFlagged' /\ es'.s_error_count = es.s_error_count + 1]_vars

\* ext4_error was called under errors=continue on a writable volume with a
\* journal: the fault is recorded and persisted, the volume stays writable
\* and the journal runs on
C26_Witness ==
    /\ op.name \in {"error", "error_inode", "error_file"}
    /\ Policy("ERRORS_CONT") /\ ~ReadOnly /\ ~Aborted
    /\ sb.s_journal /\ "JBD2_ABORT" \notin jnl.j_flags
    /\ ErrorFlagged /\ es.s_error_count > 0 /\ disk.sb = es


\* the volume went read-only on a fault
FaultedReadOnly == Mounted /\ ReadOnly /\ Aborted

\* C27: under errors=remount-ro a fault report on a writable volume sets
\* the read-only flag and the aborted flag and aborts the journal when one
\* is bound; the volume then stays read-only and aborted for as long as it
\* is mounted, and every ext4_journal_start_sb on a read-only volume
\* returns EROFS
C27_RemountRoPolicy ==
    [][/\ (RecordingStep /\ Policy("ERRORS_RO") /\ ~ReadOnly) =>
              /\ ReadOnly' /\ Aborted'
              /\ sb.s_journal => "JBD2_ABORT" \in jnl'.j_flags
       /\ (FaultedReadOnly /\ Mounted') => FaultedReadOnly'
       /\ (Mounted /\ ReadOnly) =>
              ext4_journal_start_sb(Start(NoEnv)).ret = "EROFS"
       /\ (op'.name = "journal_start" /\ ReadOnly) =>
              (op'.ret = "EROFS" /\ sb' = sb /\ es' = es /\ jnl' = jnl)]_vars

\* a writer was refused with EROFS on a volume that a fault report turned
\* read-only under errors=remount-ro, its journal aborted
C27_Witness ==
    /\ op.name = "journal_start" /\ op.ret = "EROFS"
    /\ Policy("ERRORS_RO") /\ FaultedReadOnly
    /\ es.s_error_count > 0
    /\ sb.s_journal /\ "JBD2_ABORT" \in jnl.j_flags

\* the same on a volume without a journal
C27_WitnessNoJournal ==
    /\ op.name = "journal_start" /\ op.ret = "EROFS"
    /\ Policy("ERRORS_RO") /\ FaultedReadOnly
    /\ es.s_error_count > 0 /\ ~sb.s_journal


C28_WitnessNoJournal ==
    /\ op.name \in ReportNames /\ host.state = "panic"
    /\ Policy("ERRORS_PANIC") /\ ~sb.s_journal
    /\ ErrorFlagged /\ es.s_error_count = 1 /\ disk.sb = es


--------------------------------------------------------------------------
(* The error a journal carries from an earlier mount: volumes with a       *)
(* journal that holds an error code or not, mounted, faulted, unmounted    *)
(* and crashed, the write of the superblock failing or not                 *)

StaleImages ==
    {[WithEs(BaseImage, [BaseEs EXCEPT !.s_errors = pol])
         EXCEPT !.disk.j_errno = jerr] :
        pol \in {"CONTINUE", "RO"}, jerr \in {"0", "EIO"}}

StaleInit == InitFrom(StaleImages, {TRUE})

\* mount(2) without options, the writes of the superblock failing or not
MountStale ==
    MountWith({<<>>}, {NoEnv, [NoEnv EXCEPT !.fail = {"sb_write"}]})

\* what a crash leaves of machine state M: the device, and nothing of the
\* memory
AfterCrash(name, args, M) ==
    /\ sb' = NoSb
    /\ es' = M.disk.sb
    /\ gd' = gd
    /\ disk' = [M.disk EXCEPT !.sb_dirty = FALSE]
    /\ jnl' = NoJournal
    /\ li' = NoLi
    /\ host' = [host EXCEPT !.held = {}]
    /\ op' = [name |-> name, args |-> args, ret |-> "0", log |-> M.log]
    /\ lz' = lz

\* the host crashes and restarts with the volume mounted
Crash ==
    /\ Up /\ Mounted
    /\ AfterCrash("crash", NoArgs, Start(NoEnv))

\* ext4_load_journal as it calls ext4_clear_journal_err: the superblock
\* read, the journal loaded with the error code its superblock holds
AtClearJournalErr(env) ==
    [Start(env) EXCEPT !.sb.s_sbh = TRUE, !.sb.s_fs_info = TRUE,
                       !.sb.s_journal = TRUE,
                       !.jnl = [j_flags |-> {}, j_errno |-> disk.j_errno]]

\* the host crashes inside ext4_clear_journal_err, between
\* ext4_commit_super and jbd2_journal_clear_err
CrashInClear ==
    /\ Up /\ ~Mounted /\ ~disk.ejected
    /\ EXT4_HAS_COMPAT_FEATURE(es, {"HAS_JOURNAL"})
    /\ disk.j_errno # "0"
    /\ \E f \in WriteOutcomes :
          AfterCrash("crash_in_clear", [NoArgs EXCEPT !.fail = f],
                     JournalErrRecorded(
                         AtClearJournalErr([NoEnv EXCEPT !.fail = f])))

StaleNext ==
    \/ MountStale
    \/ Unmount
    \/ RemountPlain
    \/ ErrorAt
    \/ Crash
    \/ CrashInClear

StaleSpec == StaleInit /\ [][StaleNext]_vars

\* the device holds the trace of a fault: the error flag in the superblock
\* or an error code in the journal
FaultOnDevice ==
    "EXT4_ERROR_FS" \in disk.sb.s_state \/ disk.j_errno # "0"

\* a mount that loaded a journal carrying an error code
StaleMountStep ==
    /\ MountStep /\ Mounted' /\ sb'.s_journal
    /\ disk.j_errno # "0"

ClearPlaces(log) == Places(log, "clear", "journal_err")

\* the mount marked the error in the superblock, issued a synchronous write
\* of it and then cleared the code in the journal, once
TranscribedThenCleared ==
    /\ ErrorFlagged'
    /\ Cardinality(ClearPlaces(op'.log)) = 1
    /\ \A j \in ClearPlaces(op'.log) :
          \E i \in SyncIssued(op'.log) : i < j
    /\ jnl'.j_errno = "0" /\ disk'.j_errno = "0"

\* ext4_clear_journal_err, called now, reports nothing and changes nothing
ClearIsNoOp ==
    ext4_clear_journal_err(Start(NoEnv)) = Start(NoEnv)

\* C21: a mount that finds an error code in the journal marks the error in
\* the superblock, writes the superblock synchronously and then clears the
\* code in the journal; a later call of ext4_clear_journal_err, in the same
\* mount or the next, reports nothing; and no step, a crash inside the call
\* included, takes the trace of the fault off the device
C21_StaleJournalErrorOnce ==
    [][/\ StaleMountStep => TranscribedThenCleared
       /\ (Mounted /\ sb.s_journal /\ jnl.j_errno = "0") => ClearIsNoOp
       /\ FaultOnDevice => FaultOnDevice']_vars

\* the part of C21 that holds: the order of the write and the clear, the
\* silence of a later call, and the fault kept on the device by every step
\* whose superblock writes succeed
StaleJournalErrorKeptWhenWritten ==
    [][/\ StaleMountStep => TranscribedThenCleared
       /\ (Mounted /\ sb.s_journal /\ jnl.j_errno = "0") => ClearIsNoOp
       /\ (FaultOnDevice /\ "sb_write" \notin op'.args.fail) =>
              FaultOnDevice']_vars

\* a crash between the write and the clear left the error both in the
\* superblock and in the journal, and the next mount cleared the journal
StaleCrashSurvived ==
    /\ op.name = "crash_in_clear" /\ op.args.fail = {}
    /\ "EXT4_ERROR_FS" \in disk.sb.s_state /\ disk.j_errno # "0"


--------------------------------------------------------------------------
(* Orphan cleanup on chains with inodes that cannot be read, on volumes    *)
(* that cannot be mounted writable and on volumes with errors              *)

\* ext4_orphan_cleanup gets as far as its loop on the chain the unprimed es
\* and disk hold: there is a chain, the device is writable, the feature set
\* can be mounted read-write and the mount state carries no error
LoopReached ==
    /\ es.s_last_orphan # 0
    /\ ~disk.bdev_ro
    /\ ext4_feature_set_ok(es, FALSE, host.lbdaf)
    /\ "EXT4_ERROR_FS" \notin es.s_state
    /\ disk.j_errno = "0"

\* the inodes of the chain that ext4_orphan_get cannot read
Unreadable == {k \in 1..es.s_last_orphan : ~disk.orphans[k].ok}

\* the first of them on the way from the head: the chain runs from
\* s_last_orphan down
FirstUnreadable == CHOOSE k \in Unreadable : \A j \in Unreadable : j <= k

Processed(log) ==
    Count(log, "orphan", "truncate") + Count(log, "orphan", "delete")

\* C31: when ext4_orphan_get fails on the inode the head pointer names, the
\* cleanup sets the head pointer to zero and stops: the inodes before it
\* were truncated or deleted and stay counted, none after it is visited
C31_StopsOnUnreadable ==
    [][(MountedStep /\ LoopReached /\ Unreadable # {}) =>
          /\ es'.s_last_orphan = 0
          /\ Processed(op'.log) = es.s_last_orphan - FirstUnreadable
          /\ Count(op'.log, "orphan", "truncate") =
                Cardinality({k \in (FirstUnreadable + 1)..es.s_last_orphan :
                                disk.orphans[k].i_nlink # 0})]_vars

\* a mount worked off the head of a chain of MaxOrphans inodes and stopped
\* at the second, which it could not read, with readable inodes behind it
C31_Witness ==
    /\ MountDone /\ es.s_last_orphan = 0
    /\ disk.orphans[MaxOrphans].ok /\ ~disk.orphans[MaxOrphans - 1].ok
    /\ Processed(op.log) = 1


\* C32: on a volume whose feature set cannot be mounted read-write,
\* ext4_orphan_cleanup processes no inode and leaves the head pointer, in
\* memory and on the device, and the read-only flag of the mount as they
\* were: the chain is there for a later writable mount
C32_SkippedOnUnwritableFeatures ==
    [][(MountedStep /\ es.s_last_orphan # 0
          /\ ~ext4_feature_set_ok(es, FALSE, host.lbdaf)) =>
          /\ Processed(op'.log) = 0
          /\ es'.s_last_orphan = es.s_last_orphan
          /\ disk'.sb.s_last_orphan = disk.sb.s_last_orphan
          /\ disk'.orphans = disk.orphans
          /\ ("MS_RDONLY" \in sb'.s_flags) = op'.args.ro]_vars

\* a read-only mount of a volume with an unknown read-only-compatible
\* feature went through ext4_orphan_cleanup with its chain of MaxOrphans
\* readable inodes on a writable device and kept it
C32_Witness ==
    /\ MountDone /\ es.s_last_orphan = MaxOrphans
    /\ ~ext4_feature_set_ok(es, FALSE, host.lbdaf)
    /\ ~disk.bdev_ro /\ "EXT4_ERROR_FS" \notin sb.s_mount_state
    /\ \A k \in 1..MaxOrphans : disk.orphans[k].ok
    /\ Count(op.log, "step", "orphan_cleanup_done") = 1
    /\ "MS_RDONLY" \in sb.s_flags


\* a mount whose ext4_orphan_cleanup took a head pointer that was not zero
\* to zero on a chain of readable inodes
ChainEmptied ==
    /\ MountedStep
    /\ es.s_last_orphan # 0 /\ es'.s_last_orphan = 0
    /\ Unreadable = {}

\* every inode of the chain was finished: truncated if it has links,
\* deleted if it has none
ChainDrained ==
    /\ Processed(op'.log) = es.s_last_orphan
    /\ Count(op'.log, "orphan", "truncate") =
          Cardinality({k \in 1..es.s_last_orphan :
                          disk.orphans[k].i_nlink # 0})

\* C33 as stated: the head pointer goes to zero on a chain of readable
\* inodes only when every inode of the chain was finished, whatever the
\* error state of the volume
C33_EmptiedOnlyByDraining_Original ==
    [][ChainEmptied => ChainDrained]_vars

\* C33: the head pointer goes to zero on a chain of readable inodes only
\* when every inode of the chain was finished, unless the mount state
\* carries EXT4_ERROR_FS: then the head pointer is zeroed and no inode of
\* the chain is touched
C33_EmptiedOnlyByDraining ==
    [][ChainEmptied =>
          IF "EXT4_ERROR_FS" \in sb'.s_mount_state
          THEN Processed(op'.log) = 0
          ELSE ChainDrained]_vars

\* a mount of a volume without errors emptied a chain of MaxOrphans
\* readable inodes without links by deleting each of them
C33_Witness ==
    /\ MountDone /\ es.s_last_orphan = 0
    /\ "EXT4_ERROR_FS" \notin sb.s_mount_state
    /\ \A k \in 1..MaxOrphans : disk.orphans[k].ok
    /\ Count(op.log, "orphan", "delete") = MaxOrphans
    /\ Count(op.log, "orphan", "truncate") = 0


--------------------------------------------------------------------------
(* Orphan cleanup with a fault reported while it runs                      *)

\* volumes with a chain, under each error policy
FaultyOrphanImages ==
    {[WithEs(BaseImage, [BaseEs EXCEPT !.s_last_orphan = n,
                                       !.s_errors = pol])
         EXCEPT !.disk.orphans = MkOrphans(linked, bad)] :
        n \in 1..MaxOrphans,
        pol \in {"CONTINUE", "RO", "PANIC"},
        linked \in SUBSET (1..MaxOrphans),
        bad \in SUBSET (1..MaxOrphans)}

FaultyOrphanInit == InitFrom(FaultyOrphanImages, {TRUE})

\* mount(2) without options; an inode of the chain that cannot be read is
\* reported as a fault or not
MountOrphanFault ==
    MountWith({<<>>}, {NoEnv, [NoEnv EXCEPT !.fail = {"orphan_get_error"}]})

FaultyOrphanNext ==
    \/ MountOrphanFault
    \/ Unmount

FaultyOrphanSpec == FaultyOrphanInit /\ [][FaultyOrphanNext]_vars

\* the events of a log between the start and the end of
\* ext4_orphan_cleanup
InCleanup(log) ==
    {i \in 1..Len(log) :
        /\ \E a \in Places(log, "step", "orphan_cleanup") : a < i
        /\ \E b \in Places(log, "step", "orphan_cleanup_done") : i < b}

\* a fault was reported while ext4_orphan_cleanup ran
FaultInCleanup(log) ==
    \E i \in InCleanup(log) : log[i] = <<"policy", "handle_error">>

\* C39: when the error policy makes the volume read-only while
\* ext4_orphan_cleanup runs, the volume is read-only after it; when no fault
\* is reported while it runs, the read-only flag after it is the one the
\* mount came with
C39_CleanupKeepsForcedReadOnly ==
    [][MountedStep =>
          IF FaultInCleanup(op'.log)
          THEN "ERRORS_RO" \in sb'.s_mount_opt => "MS_RDONLY" \in sb'.s_flags
          ELSE ("MS_RDONLY" \in sb'.s_flags) = op'.args.ro]_vars

\* the part of C39 that holds: without a fault reported while it runs,
\* ext4_orphan_cleanup hands the read-only flag back as the mount came
\* with it, and with one a read-only mount is read-only after it
CleanupRestoresFlags ==
    [][MountedStep =>
          /\ ~FaultInCleanup(op'.log) =>
                ("MS_RDONLY" \in sb'.s_flags) = op'.args.ro
          /\ op'.args.ro => "MS_RDONLY" \in sb'.s_flags]_vars

\* a read-write mount under errors=remount-ro reported a fault while
\* ext4_orphan_cleanup ran, was marked aborted, and is writable after it
ForcedReadOnlyUndone ==
    /\ MountDone /\ ~op.args.ro
    /\ FaultInCleanup(op.log)
    /\ "ERRORS_RO" \in sb.s_mount_opt
    /\ "EXT4_MF_FS_ABORTED" \in sb.s_mount_flags
    /\ "MS_RDONLY" \notin sb.s_flags


--------------------------------------------------------------------------
(* The error counter and the timer of the daily report                     *)

\* the step is one call of a fault report on the mounted volume
ReportStep == op'.name \in ReportNames /\ Mounted

\* the timer of the daily report is armed by the step exactly when the
\* counter was zero before it
TimerArmedFromZero ==
    IF es.s_error_count = 0
    THEN sb'.s_err_report
    ELSE sb'.s_err_report = sb.s_err_report

\* C36: one call of ext4_error, ext4_error_inode, ext4_error_file,
\* ext4_std_error, ext4_abort or the group-locked error adds exactly one to
\* s_error_count, and arms the timer of the daily report exactly when the
\* counter was zero before the call
C36_ErrorCounter ==
    [][ReportStep =>
          /\ es'.s_error_count = es.s_error_count + 1
          /\ TimerArmedFromZero]_vars

\* what one call adds to s_error_count: ext4_abort records the fault twice
\* on a writable volume, ext4_std_error records nothing for EROFS outside a
\* handle on a read-only volume, every other call records once
CountedBy(name, args) ==
    IF name = "abort" /\ ~ReadOnly THEN 2
    ELSE IF /\ name = "std_error" /\ args.errno = "EROFS"
            /\ ~args.in_handle /\ ReadOnly
    THEN 0
    ELSE 1

\* the counter as the code keeps it: CountedBy per call, and the timer is
\* armed by a call that records exactly when the counter was zero before
ErrorCounterAsCoded ==
    [][ReportStep =>
          /\ es'.s_error_count =
                es.s_error_count + CountedBy(op'.name, op'.args)
          /\ IF CountedBy(op'.name, op'.args) = 0
             THEN sb'.s_err_report = sb.s_err_report
             ELSE TimerArmedFromZero]_vars

\* one call of ext4_abort on a writable volume without faults left the
\* counter at two
AbortCountedTwice ==
    /\ op.name = "abort" /\ Mounted
    /\ es.s_error_count = 2
    /\ es.s_first_error_time = es.s_last_error_time
    /\ es.s_first_error_line = es.s_last_error_line
    /\ Count(op.log, "policy", "abort") = 1


--------------------------------------------------------------------------
(* The aborted flag and the read-only flag                                 *)

\* C37: on a mounted volume the aborted flag (EXT4_MF_FS_ABORTED) is set
\* only with the read-only flag (MS_RDONLY) set
C37_AbortedIsReadOnly ==
    (Mounted /\ Up /\ Aborted) => ReadOnly


--------------------------------------------------------------------------
(* The superblock record written and read back                             *)

MaxAlloc == 1           \* blocks or inodes allocated on a mounted volume
MaxKbytes == 2          \* caps es->s_kbytes_written

\* part_stat_read(bd_part, sectors[1]) at a call of ext4_commit_super
Sectors == {0, 2}

\* volumes whose record carries kbytes written by earlier mounts and free
\* counts that are those of the descriptors or stale
RoundTripImages ==
    {WithEs(BaseImage, [BaseEs EXCEPT !.s_kbytes_written = kb,
                                      !.s_free_blocks_count = @ + stale]) :
        kb \in {0, 1}, stale \in {0, 1}}

RoundTripInit == InitFrom(RoundTripImages, {TRUE})

\* the allocator takes a block or an inode: the per-cpu counters move, the
\* superblock record is left to the next ext4_commit_super
Allocate ==
    /\ Up /\ Mounted /\ ~ReadOnly /\ ~sb.s_frozen
    /\ \E inode \in BOOLEAN :
          /\ IF inode
             THEN sb.s_freeinodes_counter >
                     ext4_count_free_inodes(gd, NGroups) - MaxAlloc
             ELSE sb.s_freeclusters_counter >
                     ext4_count_free_clusters(gd, NGroups) - MaxAlloc
          /\ Apply("allocate", NoArgs,
                   IF inode
                   THEN [Start(NoEnv) EXCEPT !.sb.s_freeinodes_counter = @ - 1]
                   ELSE [Start(NoEnv) EXCEPT
                            !.sb.s_freeclusters_counter = @ - 1])

\* calls of ext4_commit_super at every time, with or without sectors
\* written since the mount, the write failing or not
CommitEnvs ==
    {[NoEnv EXCEPT !.now = n, !.sectors = s, !.fail = f] :
        n \in 1..MaxTime, s \in Sectors, f \in WriteOutcomes}

\* ext4_commit_super(sb, sync)
CommitSuper ==
    /\ Up /\ Mounted
    /\ \E env \in CommitEnvs, sync \in BOOLEAN :
          /\ sb.s_kbytes_written + (env.sectors \div 2) <= MaxKbytes
          /\ Apply("commit_super", ReportArgs(env, 0, 0),
                   ext4_commit_super(Start(env), sync))

RoundTripNext ==
    \/ MountDefault
    \/ Unmount
    \/ Allocate
    \/ CommitSuper

RoundTripSpec == RoundTripInit /\ [][RoundTripNext]_vars

\* the step is a call of ext4_commit_super whose synchronous write reached
\* the device; the block read from the device afterwards is disk'.sb
PersistStep ==
    /\ op'.name = "commit_super"
    /\ Count(op'.log, "persist", "sync") = 1

\* C34 as stated: the record read back after ext4_commit_super is the record
\* of before the call in every field but the write time
C34_RoundTrip_Original ==
    [][PersistStep => SansWtime(disk'.sb) = SansWtime(es)]_vars

\* C34: the record read back after a synchronous ext4_commit_super that
\* reached the device is the in-memory record as the call left it; it is
\* the record of before the call in every field but the four the call
\* refreshes: the write time (the time of the call, left alone on a
\* read-only volume), the kbytes written, and the free blocks and free
\* inodes, which are taken from the counters of the mount
C34_RoundTrip ==
    [][PersistStep =>
          /\ disk'.sb = es'
          /\ SansRefreshed(es') = SansRefreshed(es)
          /\ es'.s_wtime = IF ReadOnly THEN es.s_wtime ELSE op'.args.at.now
          /\ es'.s_kbytes_written \in
                {sb.s_kbytes_written
                   + ((s - sb.s_sectors_written_start) \div 2) : s \in Sectors}
          /\ es'.s_free_blocks_count = sb.s_freeclusters_counter
          /\ es'.s_free_inodes_count = sb.s_freeinodes_counter]_vars

\* a record written and read back after a block and an inode were
\* allocated and sectors were written: it differs from the one the device
\* held at mount in the write time, the kbytes and both free counts
C34_Witness ==
    /\ op.name = "commit_super" /\ Mounted
    /\ Count(op.log, "persist", "sync") = 1
    /\ disk.sb = es
    /\ es.s_wtime = MaxTime
    /\ es.s_kbytes_written = sb.s_kbytes_written + 1
    /\ es.s_free_blocks_count = ext4_count_free_clusters(gd, NGroups) - 1
    /\ es.s_free_inodes_count = ext4_count_free_inodes(gd, NGroups) - 1


--------------------------------------------------------------------------
(* The magic of the superblock on the first and on the second load         *)

\* volumes whose record has the magic of ext4 or not, read once or, the
\* block size of the record differing, twice, the second read returning the
\* magic or not
MagicImages ==
    {[WithEs(BaseImage, [BaseEs EXCEPT !.s_magic = m1,
                                       !.s_feature_compat = com,
                                       !.s_feature_incompat = inc])
         EXCEPT !.disk.reread = rr, !.disk.magic2 = m2] :
        m1 \in BOOLEAN, rr \in BOOLEAN, m2 \in BOOLEAN,
        com \in {{"HAS_JOURNAL"}, {}},
        inc \in {{}, {"RECOVER"}}}

MagicInit == InitFrom(MagicImages, {TRUE})

MagicNext ==
    \/ Mount
    \/ Unmount

MagicSpec == MagicInit /\ [][MagicNext]_vars

\* the first load finds another magic
BadMagicFirst == ~es.s_magic

\* the second load is made and finds another magic
BadMagicSecond == es.s_magic /\ disk.reread /\ ~disk.magic2

\* what ext4_fill_super takes once the record is loaded for good: the
\* descriptor buffers, the counters, the journal, the lazy-init request
AfterLoad == GdBufs \cup {"counters", "journal", "journal_bdev", "li_request"}

\* the mount failed with the record not taken: nothing of AfterLoad was
\* ever acquired, no step past the load was reached, and the journal and
\* the lazy-init registry are as they were
RefusedAtLoad ==
    /\ ~Mounted' /\ op'.ret # "0"
    /\ Acquired(op'.log) \cap AfterLoad = {}
    /\ \A i \in 1..Len(op'.log) : op'.log[i][1] \notin {"step", "journal"}
    /\ jnl' = jnl /\ li' = li /\ gd' = gd /\ disk' = disk
    /\ host'.held = {}

\* the mount ends between the two loads: its options are refused or the
\* feature set cannot be mounted as asked
RefusedBeforeSecondLoad ==
    \/ parse_options(Start(NoEnv), op'.args.data, FALSE).ret = "0"
    \/ ~ext4_feature_set_ok(es, op'.args.ro, host.lbdaf)

\* C35: a record whose magic is not that of ext4 is refused on the first
\* load, with the superblock buffer read once, and on the second load,
\* with the buffer read twice (once when the mount is refused between the
\* two loads for its options or its features); either way the mount fails before a group
\* descriptor is read, a journal is opened or a lazy-init request is
\* registered
C35_MagicChecked ==
    [][/\ (MountStep /\ BadMagicFirst) =>
             (RefusedAtLoad /\ Count(op'.log, "acquire", "sbh") = 1)
       /\ (MountStep /\ BadMagicSecond) =>
             (RefusedAtLoad
              /\ Count(op'.log, "acquire", "sbh") =
                    IF RefusedBeforeSecondLoad THEN 1 ELSE 2)]_vars

\* a mount that read the superblock twice and refused it on the second
\* load for its magic
C35_Witness ==
    /\ MountFailed /\ es.s_magic /\ disk.reread /\ ~disk.magic2
    /\ op.args.data = <<>>
    /\ Count(op.log, "acquire", "sbh") = 2
    /\ Acquired(op.log) = {"sbi", "sbh"}

\* a mount that refused the superblock on the first load for its magic
C35_WitnessFirstLoad ==
    /\ MountFailed /\ ~es.s_magic
    /\ Count(op.log, "acquire", "sbh") = 1
    /\ Acquired(op.log) = {"sbi", "sbh"}


--------------------------------------------------------------------------
(* The worker and the read-only flag                                       *)

\* ext4_handle_error under errors=remount-ro, on any thread: the volume
\* goes read-only with no lock of the lazy-init code taken, and its request
\* stays where it is
ForceReadOnly(v) ==
    /\ ~lz.oops /\ lz.mounted[v] /\ ~lz.rdonly[v]
    /\ LzStep([lz EXCEPT !.rdonly[v] = TRUE])

LazyFaultNext ==
    \/ ConcNext
    \/ \E v \in Vols : ForceReadOnly(v)

LazyFaultSpec == ConcInit /\ [][LazyFaultNext]_vars

\* the worker starts to zero a group
InitStarts == lz.wpc # "init" /\ lz'.wpc = "init"

C40_WitnessQueued ==
    /\ lz.mounted["W"] /\ lz.rdonly["W"] /\ ~lz.oops
    /\ RequestsOf("W") # {} /\ lz.elr["W"] # 0


--------------------------------------------------------------------------
(* The two mutexes of the lazy-init code                                   *)

\* the steps of the call that runs for v, once the VFS has started it
CallStep(v) ==
    \/ RemountFlip(v)
    \/ RegisterCheck(v)
    \/ RegisterLock(v)
    \/ RegisterAdd(v)
    \/ RegisterSet(v)
    \/ RegisterRun(v)
    \/ UnregisterLock(v)
    \/ UnregisterRemove(v)

\* the steps of the worker
WorkerStep ==
    \/ ThreadLock
    \/ ThreadVisit
    \/ ThreadInitDone
    \/ ThreadUnlock
    \/ ThreadExitLock
    \/ ThreadExit

\* every thread is scheduled, and a mutex hands itself to a thread that
\* keeps waiting for it, however often other threads take it in between:
\* a thread that can take its next step again and again takes it
LockSpec ==
    /\ ConcInit /\ [][ConcNext]_vars
    /\ \A v \in Vols : SF_vars(CallStep(v))
    /\ SF_vars(WorkerStep)

\* the caller for v is inside ext4_register_li_request or
\* ext4_unregister_li_request
InCall(v) == lz.pc[v] \notin {"idle", "flip", "done"}

\* the worker is on its way out
Exiting == lz.wpc \in {"exit", "exit2"}

\* a thread that holds li_list_mtx waits for ext4_li_mtx: the worker is the
\* one thread that keeps li_list_mtx from one step to the next
WaitsAgainstOrder ==
    lz.list_mtx = "worker" /\ lz.wpc \in {"exit", "exit2"}

DeadlockFreeUnlessOops ==
    /\ [](~WaitsAgainstOrder)
    /\ \A v \in Vols : InCall(v) ~> (lz.pc[v] = "done" \/ lz.oops)
    /\ Exiting ~> (lz.wpc \in {"dead", "loop"} \/ lz.oops)
====
